---- MODULE Spec2Model ----
(***************************************************************************)
(* The unified OCR + translation service of RSTA (scripts/serve_unified.py *)
(* and scripts/server/state.py): the ServiceState object with its three    *)
(* locks, the lazily built OCR engine cache, the translation model slot,   *)
(* the loading-status flags, the background preload thread started by      *)
(* lifespan, the request handlers, the two-worker executor behind          *)
(* /translate and the streaming generator behind /translate_stream.        *)
(*                                                                         *)
(* Every process (a request-serving thread or the preload thread) has a    *)
(* program counter pc; one action is one step of the code between two      *)
(* accesses to shared state.                                               *)
(***************************************************************************)
EXTENDS Integers, Sequences, FiniteSets, TLC

\* ------------------------------------------------------------------ bounds
\* Request threads that serve the OCR endpoints.
NOcrThreads == 2
\* Request threads that serve the translation endpoints.
NTrThreads == 1
\* Longest chunk sequence a streaming completion produces in the model.
MaxChunks == 2
\* Executor tasks that may be outstanding (queued, running or unread).
MaxTasks == 1
\* POST /config requests served
MaxPosts == 2
\* Capacity of the log buffer in the model (max_size, 500 in the service).
LogMaxSize == 2
\* Largest id LogBuffer.add gives in the model.
MaxLogId == 4

\* ------------------------------------------------------- program constants
\* ThreadPoolExecutor(max_workers=2)
MaxWorkers == 2

BG == 0
OcrThreads == 1..NOcrThreads
TrThreads == 1..NTrThreads
Threads == OcrThreads \cup TrThreads
Procs == {BG} \cup Threads
TaskIds == 1..MaxTasks

ModelTypes == {"mobile", "server"}
Langs == {"en"}
Backends == {"rapidocr", "paddleocr"}
BackendState == {"absent", "raises", "ok"}
\* The text the i-th chunk of a streaming completion carries when it carries
\* any: texts differ by position, so the order of the events is observable.
TokenText == <<"a", "b", "c", "d">>
\* chunk.get("choices", [{}])[0].get("text", ""): the i-th chunk has its
\* text or none
Tokens(i) == {"", TokenText[i]}
DONE == "[DONE]"

NoRet == [kind |-> "none", engine |-> 0, repo |-> "none", file |-> "none"]
NoResp == 0
NoGen == [pulled |-> << >>, sent |-> << >>, stream |-> "none", out |-> "none"]
Free == <<"free", 0>>
NoEnv == [openvino |-> "none", onnx |-> "none", paddle |-> "none",
          has_models |-> FALSE, auto_download |-> FALSE]
NoImage == [stage |-> "none", min_side_for_upscale |-> 0, max_side |-> 0,
            w0 |-> 0, h0 |-> 0, w1 |-> 0, h1 |-> 0, w2 |-> 0, h2 |-> 0]
NoTrEnv == [hub |-> FALSE, llama |-> FALSE, env_file |-> FALSE, local |-> FALSE,
            listing |-> "none", is_file |-> FALSE, absolute |-> FALSE, in_dir |-> FALSE,
            download_ok |-> FALSE, ctor_ok |-> FALSE]
NoLoad == [kind |-> "idle", repo |-> "none", file |-> "none", downloaded |-> FALSE]
NoCtor == [stage |-> "none", kwargs |-> {}, pending |-> {}, calls |-> 0,
          error |-> "none", last |-> << >>]
NoKeys == [a |-> <<"none", "none">>, b |-> <<"none", "none">>, key_a |-> "none",
           key_b |-> "none"]
NoStore == [stage |-> "none", via |-> "none", tag |-> "none", cached |-> FALSE,
            seen |-> "none"]
NoChain == [kind |-> "none", backend |-> "none", err |-> "none", via |-> "none",
            ctors |-> << >>, cached |-> FALSE, dir |-> "none"]

VARIABLES
    \* ServiceState
    ocr_engines, translate_model, translate_repo, translate_file,
    ocr_lock, translate_lock, translate_load_lock,
    ocr_loading, ocr_ready, translate_loading, translate_ready, loading_error,
    \* configuration (cached once per process)
    cfg,
    \* lifespan
    accepting,
    \* per process: position, calling handler, cache key in hand, last return
    \* value of load_ocr_engine / ensure_translate_model (an engine is
    \* remembered by its instance number), HTTP status of the response
    pc, ctx, key, ret, resp,
    \* background_preload's loop index over unified_service.preload_ocr
    bg_i,
    \* _executor: FIFO work queue and the futures
    queue, task, fut,
    \* generator() locals of /translate_stream
    gen,
    \* instrumentation: engines constructed per key, translation models
    \* constructed, whether ensure_translate_model has ever returned True
    ctor_count, n_models, ensured,
    \* per request thread: whether the payload of the request it serves is
    \* usable (base64 that decodes, text that is not blank)
    req,
    \* rsta.config: config.json and the DEFAULT_CONFIG object; the
    \* configuration a POST /config started from, its body, and the answer
    \* of the last GET /config; POST /config requests served
    config_file, default_config, config_before, config_posted, config_got, n_posts,
    \* LOG_BUFFER: buffer and _last_id; the entry an add call has numbered
    \* and not yet appended; the answer of the last GET /logs;
    \* instrumentation: the entries added since the buffer was last empty,
    \* the id given by the last add and the largest id given before it
    log_buffer, last_id, log_pending, logs_got, log_added, last_given, max_given,
    \* one consumer of /logs/stream: the last_id of its loop; instrumentation:
    \* the entries appended since its last poll that the buffer has not
    \* dropped in a clear, and whether its last poll got another number
    consumer,
    \* instrumentation: the start of the preload thread and the steps
    \* background_preload has started, in order
    bg_trace,
    \* one call of the backend chain of load_ocr_engine outside the service:
    \* what the environment offers and what the chain did with it
    ocr_env, ocr_chain,
    \* the image of one do_ocr call on its way through the resizing
    image,
    \* one call of load_translate_model outside the service: what the
    \* environment offers, local_service.auto_download of the configuration,
    \* and what the call did
    tr_env, tr_auto_download, tr_load,
    \* the engine one load_ocr_engine call makes on its way into the cache:
    \* how far the call is, the tag on the engine, whether the cache holds
    \* it, and what a reader without the lock got
    ocr_store,
    \* two requests for an OCR engine, (model_type, lang) each, and the
    \* cache keys built from them
    ocr_keys,
    \* one call of _safe_create_ocr: the kwargs it got, the pending
    \* arguments, the constructor calls made and how it ended
    ocr_ctor

state_vars == <<ocr_engines, translate_model, translate_repo, translate_file,
                ocr_lock, translate_lock, translate_load_lock>>
flag_vars == <<ocr_loading, ocr_ready, translate_loading, translate_ready, loading_error>>
proc_vars == <<pc, ctx, key, ret, resp, bg_i>>
exec_vars == <<queue, task, fut>>
ghost_vars == <<ctor_count, n_models, ensured>>
config_vars == <<config_file, default_config, config_before, config_posted, config_got,
                 n_posts>>
log_vars == <<log_buffer, last_id, log_pending, logs_got, log_added, last_given, max_given,
              consumer>>
\* what the model-loading side of the service leaves alone, but for req
trload_vars == <<tr_env, tr_auto_download, tr_load>>
\* what the calls outside the service leave alone
base_vars == <<state_vars, flag_vars, cfg, config_vars, log_vars, req, bg_trace, accepting,
               proc_vars, exec_vars, gen, ghost_vars>>
more_vars == <<ocr_store, ocr_keys, ocr_ctor>>
fn_vars == <<ocr_env, ocr_chain, image, trload_vars, more_vars>>
store_vars == <<cfg, config_vars, log_vars, fn_vars>>
rest_vars == <<store_vars, req, bg_trace>>
vars == <<state_vars, flag_vars, rest_vars, accepting, proc_vars, exec_vars, gen, ghost_vars>>

\* A key that leaves the language out.
CacheKeyWithoutLang(model_type, lang) == model_type

\* cache_key = f"{model_type}_{lang}"
CacheKey(model_type, lang) == model_type \o "_" \o lang

Keys == {CacheKey(m, l) : m \in ModelTypes, l \in Langs}

\* paddleocr.model_type default "mobile", source_lang default "en"
DefaultKey == CacheKey("mobile", "en")

\* Steps of the preload thread that are not OCR keys: preload_thread.start()
\* and the translation load
ThreadStart == "start"
TranslateStep == "translate"

PreloadLists == { << >>, << [type |-> "server", lang |-> "en"] >> }

\* unified_service.preload_ocr with two entries too, the second one the
\* default key again
LongPreloadLists ==
    PreloadLists \cup
      { << [type |-> "server", lang |-> "en"], [type |-> "mobile", lang |-> "en"] >> }

Configs == [auto_load_ocr : BOOLEAN, auto_load_translator : BOOLEAN,
            preload_ocr : LongPreloadLists]

\* ------------------------------------------------------ rsta.config
\* A JSON value of config.json: a scalar (every scalar is written as a
\* string) or an object, a function from its keys to JSON values.
S(v) == [t |-> "s", v |-> v]
D(f) == [t |-> "d", d |-> f]
IsDict(x) == x.t = "d"

\* CONFIG_PATH.exists() is false
NoFile == [t |-> "absent"]
NoConfig == [t |-> "none"]

\* DEFAULT_CONFIG as the module defines it, cut down to one scalar key and
\* one nested object
DefaultConfig ==
    D([translator |-> S("unified"), ui |-> D([overlay_max_width |-> S("300")])])

\* The config.json the service may find when it starts: none, an empty
\* object, an override of a nested default and of a key the defaults nest
\* one level deeper.
StoredConfigs ==
    { NoFile,
      D(<< >>),
      D([ui |-> D([overlay_max_width |-> S("500"),
                   theme |-> D([fg |-> S("1"), bg |-> S("2")])])]) }

\* The bodies of POST /config: a scalar, a partial nested object, nested
\* objects two levels deep (whole and partial), a scalar over an object and
\* an object over a scalar.
ConfigBodies ==
    { D([translator |-> S("local")]),
      D([ui |-> D([overlay_max_width |-> S("400")])]),
      D([ui |-> D([theme |-> D([fg |-> S("1"), bg |-> S("2")])])]),
      D([ui |-> D([theme |-> D([fg |-> S("9")])])]),
      D([ui |-> S("off")]),
      D([translator |-> D([name |-> S("local")])]) }

\* merge_config(base, override): the recursive merge of two objects
RECURSIVE MergeConfig(_, _)
MergeConfig(base, override) ==
    D([k \in DOMAIN base.d \cup DOMAIN override.d |->
         IF k \notin DOMAIN override.d
         THEN base.d[k]
         ELSE IF k \in DOMAIN base.d /\ IsDict(override.d[k]) /\ IsDict(base.d[k])
         THEN MergeConfig(base.d[k], override.d[k])
         ELSE override.d[k]])

\* load_config(): DEFAULT_CONFIG itself when there is no file, otherwise
\* merge_config(DEFAULT_CONFIG, raw)
LoadConfig ==
    IF config_file = NoFile
    THEN default_config
    ELSE MergeConfig(default_config, config_file)

\* dict.update: the keys of other overwrite those of this, one level deep
DictUpdate(this, other) ==
    D([k \in DOMAIN this.d \cup DOMAIN other.d |->
         IF k \in DOMAIN other.d THEN other.d[k] ELSE this.d[k]])

\* the branch of the loop of update_config taken for key k
UpdatesInPlace(current, body, k) ==
    k \in DOMAIN current.d /\ IsDict(body.d[k]) /\ IsDict(current.d[k])

\* the loop of update_config over the items of the body
MergedInto(current, body) ==
    D([k \in DOMAIN current.d \cup DOMAIN body.d |->
         IF k \notin DOMAIN body.d
         THEN current.d[k]
         ELSE IF UpdatesInPlace(current, body, k)
         THEN DictUpdate(current.d[k], body.d[k])
         ELSE body.d[k]])

\* current[k] is the very object DEFAULT_CONFIG[k]: load_config returned
\* DEFAULT_CONFIG, or merge_config copied the reference of a key the file
\* does not have (result = dict(base) is a shallow copy).
SharedWithDefault(k) ==
    /\ k \in DOMAIN default_config.d
    /\ config_file = NoFile \/ k \notin DOMAIN config_file.d

\* DEFAULT_CONFIG after the loop of update_config: update() changes a
\* shared object in place, and an assignment lands in DEFAULT_CONFIG when
\* current is DEFAULT_CONFIG.
DefaultAfter(current, body) ==
    LET assigned == IF config_file = NoFile THEN DOMAIN body.d ELSE {} IN
    D([k \in DOMAIN default_config.d \cup assigned |->
         IF k \notin DOMAIN body.d
         THEN default_config.d[k]
         ELSE IF UpdatesInPlace(current, body, k)
         THEN IF SharedWithDefault(k)
              THEN DictUpdate(current.d[k], body.d[k])
              ELSE default_config.d[k]
         ELSE IF config_file = NoFile
         THEN body.d[k]
         ELSE default_config.d[k]])

InitConfig ==
    /\ config_file \in StoredConfigs
    /\ default_config = DefaultConfig
    /\ config_before = NoConfig
    /\ config_posted = NoConfig
    /\ config_got = NoConfig
    /\ n_posts = 0

\* POST /config: load_config, the one-level merge, save_config
UpdateConfig ==
    /\ n_posts < MaxPosts
    /\ \E body \in ConfigBodies :
         LET current == LoadConfig IN
           /\ config_file' = MergedInto(current, body)
           /\ default_config' = DefaultAfter(current, body)
           /\ config_before' = current
           /\ config_posted' = body
    /\ config_got' = NoConfig
    /\ n_posts' = n_posts + 1
    /\ UNCHANGED <<state_vars, flag_vars, cfg, log_vars, fn_vars, req, bg_trace, accepting, proc_vars,
                   exec_vars, gen, ghost_vars>>

\* GET /config
GetConfig ==
    /\ config_got' = LoadConfig
    /\ UNCHANGED <<config_file, default_config, config_before, config_posted, n_posts>>
    /\ UNCHANGED <<state_vars, flag_vars, cfg, log_vars, fn_vars, req, bg_trace, accepting, proc_vars,
                   exec_vars, gen, ghost_vars>>


\* ------------------------------------------------------ LogBuffer
\* record.levelname; entries are told apart by their ids
Levels == {"INFO"}
NoEntry == [id |-> 0, level |-> "none"]
NoLogs == [logs |-> << >>, last_id |-> 0]
\* stream_logs(since_id = 0) before its first poll
NoConsumer == [since |-> 0, fresh |-> 0, missed |-> FALSE]

\* seq[-n:] for n > 0
LastOf(seq, n) ==
    IF Len(seq) <= n THEN seq ELSE SubSeq(seq, Len(seq) - n + 1, Len(seq))

\* A deque without maxlen: append drops nothing
DequeAppendUnbounded(buffer, entry) == Append(buffer, entry)

\* deque(maxlen=max_size).append: a full deque drops its oldest entry
DequeAppend(buffer, entry) == LastOf(Append(buffer, entry), LogMaxSize)

\* LogBuffer.get_all(since_id)
GetAll(since_id) == SelectSeq(log_buffer, LAMBDA e : e.id > since_id)

\* query parameters of GET /logs
SinceIds == 0 .. MaxLogId
Limits == {0, 1, 100}

\* LOG_BUFFER = LogBuffer(max_size=500)
InitLogs ==
    /\ log_buffer = << >>
    /\ last_id = 0
    /\ log_pending = NoEntry
    /\ logs_got = NoLogs
    /\ log_added = << >>
    /\ last_given = 0
    /\ max_given = 0
    /\ consumer = NoConsumer

\* LogBuffer.add up to the entry: self._last_id += 1 and the entry dict.
\* BufferedLogHandler.emit runs under the lock of the logging handler, so
\* one add is under way at a time.
LogAddNumber ==
    /\ log_pending = NoEntry
    /\ last_id < MaxLogId
    /\ \E level \in Levels :
         log_pending' = [id |-> last_id + 1, level |-> level]
    /\ last_id' = last_id + 1
    /\ last_given' = last_id + 1
    /\ max_given' = IF last_given > max_given THEN last_given ELSE max_given
    /\ UNCHANGED <<log_buffer, logs_got, log_added, consumer>>
    /\ UNCHANGED <<state_vars, flag_vars, cfg, config_vars, fn_vars, req, bg_trace, accepting, proc_vars,
                   exec_vars, gen, ghost_vars>>

\* LogBuffer.add: self.buffer.append(entry)
LogAddAppend ==
    /\ log_pending # NoEntry
    /\ log_buffer' = DequeAppend(log_buffer, log_pending)
    /\ log_added' = Append(log_added, log_pending)
    /\ log_pending' = NoEntry
    /\ consumer' = [consumer EXCEPT !.fresh = IF @ < LogMaxSize THEN @ + 1 ELSE @]
    /\ UNCHANGED <<last_id, logs_got, last_given, max_given>>
    /\ UNCHANGED <<state_vars, flag_vars, cfg, config_vars, fn_vars, req, bg_trace, accepting, proc_vars,
                   exec_vars, gen, ghost_vars>>

LogAdd == LogAddNumber \/ LogAddAppend

\* GET /logs
GetLogs ==
    /\ \E since_id \in SinceIds, limit \in Limits :
         LET logs == GetAll(since_id) IN
           logs_got' = [logs |-> IF limit > 0 THEN LastOf(logs, limit) ELSE logs,
                        last_id |-> last_id]
    /\ UNCHANGED <<log_buffer, last_id, log_pending, log_added, last_given, max_given,
                   consumer>>
    /\ UNCHANGED <<state_vars, flag_vars, cfg, config_vars, fn_vars, req, bg_trace, accepting, proc_vars,
                   exec_vars, gen, ghost_vars>>

\* POST /logs/clear: LOG_BUFFER.buffer.clear(); LOG_BUFFER._last_id = 0.
\* The handler takes no lock, so it may run between the two steps of an add.
ClearLogs ==
    /\ log_buffer' = << >>
    /\ last_id' = 0
    /\ log_added' = << >>
    /\ consumer' = [consumer EXCEPT !.fresh = 0]
    /\ UNCHANGED <<log_pending, logs_got, last_given, max_given>>
    /\ UNCHANGED <<state_vars, flag_vars, cfg, config_vars, fn_vars, req, bg_trace, accepting, proc_vars,
                   exec_vars, gen, ghost_vars>>

\* GET /logs/stream, one turn of the loop of generate(): logs =
\* LOG_BUFFER.get_all(last_id), every log is sent and last_id = log["id"].
\* The poll counts as short of the claim when it did not get exactly the
\* entries appended since the poll before, fewer than max_size of them.
StreamLogsPoll ==
    /\ LET logs == GetAll(consumer.since) IN
         consumer' = [since |-> IF logs = << >> THEN consumer.since ELSE logs[Len(logs)].id,
                      fresh |-> 0,
                      missed |-> consumer.fresh < LogMaxSize /\ Len(logs) # consumer.fresh]
    /\ UNCHANGED <<log_buffer, last_id, log_pending, logs_got, log_added, last_given,
                   max_given>>
    /\ UNCHANGED <<state_vars, flag_vars, cfg, config_vars, fn_vars, req, bg_trace, accepting,
                   proc_vars, exec_vars, gen, ghost_vars>>

\* ServiceState.__init__ and the threads of the service
InitService ==
    /\ ocr_engines = << >>
    /\ translate_model = 0
    /\ translate_repo = "none"
    /\ translate_file = "none"
    /\ ocr_lock = Free
    /\ translate_lock = Free
    /\ translate_load_lock = Free
    /\ ocr_loading = FALSE
    /\ ocr_ready = FALSE
    /\ translate_loading = FALSE
    /\ translate_ready = FALSE
    /\ loading_error = "none"
    /\ cfg \in Configs
    /\ accepting = FALSE
    /\ pc = [p \in Procs |-> IF p = BG THEN "unborn" ELSE "idle"]
    /\ ctx = [p \in Procs |-> "none"]
    /\ key = [p \in Procs |-> "none"]
    /\ ret = [p \in Procs |-> NoRet]
    /\ resp = [p \in Procs |-> NoResp]
    /\ bg_i = 0
    /\ queue = << >>
    /\ task = [i \in TaskIds |-> "free"]
    /\ fut = [p \in Procs |-> 0]
    /\ gen = [p \in Procs |-> NoGen]
    /\ ctor_count = [k \in Keys |-> 0]
    /\ n_models = 0
    /\ ensured = FALSE
    /\ req = [p \in Procs |-> "none"]
    /\ bg_trace = << >>

\* no call of the backend chain outside the service
IdleImage == image = NoImage
IdleKeys == ocr_keys = NoKeys
IdleCtor == ocr_ctor = NoCtor
IdleMore == ocr_store = NoStore /\ IdleKeys /\ IdleCtor
IdleTrLoad == tr_env = NoTrEnv /\ tr_auto_download = FALSE /\ tr_load = NoLoad

InitFns ==
    /\ ocr_env = NoEnv
    /\ ocr_chain = NoChain
    /\ IdleImage
    /\ IdleTrLoad
    /\ IdleMore

\* ServiceState.__init__ and the module-level objects of serve_unified.py
Init ==
    /\ InitService
    /\ InitConfig
    /\ InitLogs
    /\ InitFns


\* ------------------------------------------------------------ OCR backends
\* What the environment offers one load_ocr_engine call: each RapidOCR
\* package is absent (ImportError), raises in its constructor, or works;
\* PaddleOCR is installed or not, its weights are on disk or not, its
\* constructor works or raises; paddleocr.auto_download from the config.
OcrEnvs == [openvino : BackendState, onnx : BackendState,
            paddle : BackendState, has_models : BOOLEAN, auto_download : BOOLEAN]

\* The fallback chain inside the lock of load_ocr_engine: RapidOCR-OpenVINO,
\* then RapidOCR-ONNX, then PaddleOCR after the weight check.
TryBackends(env) ==
    IF env.openvino = "ok" THEN [kind |-> "engine", backend |-> "rapidocr", err |-> "none"]
    ELSE IF env.onnx = "ok" THEN [kind |-> "engine", backend |-> "rapidocr", err |-> "none"]
    ELSE IF env.paddle = "absent" THEN [kind |-> "raise", backend |-> "none", err |-> "not_installed"]
    ELSE IF ~env.has_models /\ ~env.auto_download
        THEN [kind |-> "raise", backend |-> "none", err |-> "model_missing"]
    ELSE IF env.paddle = "raises" THEN [kind |-> "raise", backend |-> "none", err |-> "ctor_error"]
    ELSE [kind |-> "engine", backend |-> "paddleocr", err |-> "none"]

\* Every result the chain can have, one engine instance being made per
\* successful call.
OcrOutcomes == {TryBackends(env) : env \in OcrEnvs}

\* The directory the model-missing error names: paddlex_home / "official_models"
ModelDir == "official_models"

\* A chain that goes on to the PaddleOCR constructor when the weights are
\* missing, which would download them.
BackendChainNoModelCheck(env) ==
    LET ov == IF env.openvino = "absent" THEN << >> ELSE <<"openvino">>
        ox == IF env.onnx = "absent" THEN << >> ELSE <<"onnx">>
        made(b, via, ctors) ==
            [kind |-> "engine", backend |-> b, err |-> "none", via |-> via,
             ctors |-> ctors, cached |-> TRUE, dir |-> "none"]
        failed(err, ctors, dir) ==
            [kind |-> "raise", backend |-> "none", err |-> err, via |-> "none",
             ctors |-> ctors, cached |-> FALSE, dir |-> dir]
    IN  IF env.openvino = "ok" THEN made("rapidocr", "openvino", ov)
        ELSE IF env.onnx = "ok" THEN made("rapidocr", "onnx", ov \o ox)
        ELSE IF env.paddle = "absent" THEN failed("not_installed", ov \o ox, "none")
        ELSE IF env.paddle = "raises"
            THEN failed("ctor_error", ov \o ox \o <<"paddle">>, "none")
        ELSE made("paddleocr", "paddle", ov \o ox \o <<"paddle">>)

\* A chain that stops at the first backend whose constructor raises.
BackendChainStopsAtFirstError(env) ==
    LET ov == IF env.openvino = "absent" THEN << >> ELSE <<"openvino">>
        ox == IF env.onnx = "absent" THEN << >> ELSE <<"onnx">>
        made(b, via, ctors) ==
            [kind |-> "engine", backend |-> b, err |-> "none", via |-> via,
             ctors |-> ctors, cached |-> TRUE, dir |-> "none"]
        failed(err, ctors, dir) ==
            [kind |-> "raise", backend |-> "none", err |-> err, via |-> "none",
             ctors |-> ctors, cached |-> FALSE, dir |-> dir]
    IN  IF env.openvino = "ok" THEN made("rapidocr", "openvino", ov)
        ELSE IF env.openvino = "raises" THEN failed("ctor_error", ov, "none")
        ELSE IF env.onnx = "ok" THEN made("rapidocr", "onnx", ov \o ox)
        ELSE IF env.onnx = "raises" THEN failed("ctor_error", ov \o ox, "none")
        ELSE IF env.paddle = "absent" THEN failed("not_installed", ov \o ox, "none")
        ELSE IF ~env.has_models /\ ~env.auto_download
            THEN failed("model_missing", ov \o ox, ModelDir)
        ELSE IF env.paddle = "raises"
            THEN failed("ctor_error", ov \o ox \o <<"paddle">>, "none")
        ELSE made("paddleocr", "paddle", ov \o ox \o <<"paddle">>)

\* The same chain with what it does on the way: the constructors it calls
\* in order (an import that fails calls none), the backend whose engine it
\* stores in self.ocr_engines, and the directory its model-missing error
\* names.
BackendChain(env) ==
    LET ov == IF env.openvino = "absent" THEN << >> ELSE <<"openvino">>
        ox == IF env.onnx = "absent" THEN << >> ELSE <<"onnx">>
        made(b, via, ctors) ==
            [kind |-> "engine", backend |-> b, err |-> "none", via |-> via,
             ctors |-> ctors, cached |-> TRUE, dir |-> "none"]
        failed(err, ctors, dir) ==
            [kind |-> "raise", backend |-> "none", err |-> err, via |-> "none",
             ctors |-> ctors, cached |-> FALSE, dir |-> dir]
    IN  IF env.openvino = "ok" THEN made("rapidocr", "openvino", ov)
        ELSE IF env.onnx = "ok" THEN made("rapidocr", "onnx", ov \o ox)
        ELSE IF env.paddle = "absent" THEN failed("not_installed", ov \o ox, "none")
        ELSE IF ~env.has_models /\ ~env.auto_download
            THEN failed("model_missing", ov \o ox, ModelDir)
        ELSE IF env.paddle = "raises"
            THEN failed("ctor_error", ov \o ox \o <<"paddle">>, "none")
        ELSE made("paddleocr", "paddle", ov \o ox \o <<"paddle">>)

\* One call of the chain in the environment drawn at the start.
TryBackendsCall ==
    /\ ocr_chain = NoChain
    /\ ocr_chain' = BackendChain(ocr_env)
    /\ UNCHANGED <<state_vars, flag_vars, cfg, config_vars, log_vars, ocr_env, image,
                   trload_vars, more_vars, req,
                   bg_trace, accepting, proc_vars, exec_vars, gen, ghost_vars>>

\* --------------------------------------- load_ocr_engine: tag, then store
\* The chain up to the constructor that works: engine = RapidOCR(...) or
\* engine = self._safe_create_ocr(PaddleOCR, kwargs); a chain that raises
\* makes no engine.
StoreConstruct ==
    /\ ocr_store.stage = "start"
    /\ LET r == BackendChain(ocr_env)
       IN  ocr_store' = IF r.kind = "engine"
                        THEN [ocr_store EXCEPT !.stage = "constructed", !.via = r.via]
                        ELSE [ocr_store EXCEPT !.stage = "raised"]
    /\ UNCHANGED <<base_vars, ocr_env, ocr_chain, image, trload_vars, ocr_keys, ocr_ctor>>

\* engine._backend = "rapidocr" / engine._backend = "paddleocr"
StoreTag ==
    /\ ocr_store.stage = "constructed"
    /\ ocr_store' = [ocr_store EXCEPT !.stage = "tagged", !.tag = BackendChain(ocr_env).backend]
    /\ UNCHANGED <<base_vars, ocr_env, ocr_chain, image, trload_vars, ocr_keys, ocr_ctor>>

\* A store that comes ahead of the tag.
StoreInsertUntagged ==
    /\ ocr_store.stage \in {"constructed", "tagged"}
    /\ ocr_store' = [ocr_store EXCEPT !.stage = "stored", !.cached = TRUE]
    /\ UNCHANGED <<base_vars, ocr_env, ocr_chain, image, trload_vars, ocr_keys, ocr_ctor>>

\* self.ocr_engines[cache_key] = engine
StoreInsert ==
    /\ ocr_store.stage = "tagged"
    /\ ocr_store' = [ocr_store EXCEPT !.stage = "stored", !.cached = TRUE]
    /\ UNCHANGED <<base_vars, ocr_env, ocr_chain, image, trload_vars, ocr_keys, ocr_ctor>>

\* A reader that takes no lock, at any moment of the call: the fast path
\* of load_ocr_engine, then getattr(engine, "_backend", ...) in do_ocr.
StoreRead ==
    /\ ocr_store.seen = "none"
    /\ ocr_store.stage # "none"
    /\ ocr_store' = [ocr_store EXCEPT !.seen = IF ~ocr_store.cached THEN "miss"
                                                ELSE IF ocr_store.tag = "none" THEN "untagged"
                                                ELSE ocr_store.tag]
    /\ UNCHANGED <<base_vars, ocr_env, ocr_chain, image, trload_vars, ocr_keys, ocr_ctor>>

\* ------------------------------------------------------- cache keys
\* model_type and lang of PreloadRequest and OcrRequest are plain str
\* fields: the two variants the service knows and other strings, with and
\* without the separator of the key.
RequestModelTypes == ModelTypes \cup {"mobile_en", "a", "a_b"}
RequestLangs == Langs \cup {"zh", "x", "en_x", "b_c", "c"}

\* cache_key = f"{req.model_type}_{req.lang}" for both requests
PreloadOcrKeys ==
    /\ ocr_keys.key_a = "none"
    /\ ocr_keys.a[1] # "none"
    /\ ocr_keys' = [ocr_keys EXCEPT !.key_a = CacheKey(ocr_keys.a[1], ocr_keys.a[2]),
                                    !.key_b = CacheKey(ocr_keys.b[1], ocr_keys.b[2])]
    /\ UNCHANGED <<base_vars, ocr_env, ocr_chain, image, trload_vars, ocr_store, ocr_ctor>>

\* ------------------------------------------------- _safe_create_ocr
\* Three of the keyword arguments load_ocr_engine builds for PaddleOCR.
KwargNames == {"lang", "device", "enable_mkldnn"}

\* str(exc) of what the constructor may raise, as its words: an argument
\* named after "Unknown argument:", pending or never passed, the marker
\* with nothing behind it, the marker without the colon, and a message
\* without the marker.
CtorMessages ==
    {<<"Unknown", "argument:", n>> : n \in KwargNames \cup {"use_gpu"}}
    \cup {<<"Unknown", "argument:">>, <<"Unknown", "argument">>, <<"out", "of", "memory">>}

\* what one call PaddleOCR(**pending) does
CtorOutcomes ==
    {[kind |-> "engine", message |-> << >>]}
    \cup {[kind |-> "raise", message |-> m] : m \in CtorMessages}

\* "Unknown argument" in message
HasUnknownArgument(m) ==
    \E i \in 1..(Len(m) - 1) : m[i] = "Unknown" /\ m[i + 1] \in {"argument", "argument:"}

\* message.split("Unknown argument:", 1)[-1].strip().split(): the words
\* behind the first marker with a colon, all words when there is none
WordsAfterMarker(m) ==
    LET hits == {i \in 1..(Len(m) - 1) : m[i] = "Unknown" /\ m[i + 1] = "argument:"} IN
      IF hits = {}
      THEN m
      ELSE LET first == CHOOSE i \in hits : \A j \in hits : i <= j
           IN  SubSeq(m, first + 2, Len(m))

\* One pass of the loop: the constructor call with the pending arguments,
\* and the except block when it raises. [0] of an empty list of words
\* raises IndexError out of the handler.
SafeCreateOcr ==
    /\ ocr_ctor.stage = "loop"
    /\ ocr_ctor.calls <= Cardinality(KwargNames) + 1
    /\ \E out \in CtorOutcomes :
         LET called == [ocr_ctor EXCEPT !.calls = @ + 1, !.last = out.message]
             words == WordsAfterMarker(out.message)
         IN  ocr_ctor' =
               IF out.kind = "engine"
               THEN [called EXCEPT !.stage = "returned"]
               ELSE IF ~HasUnknownArgument(out.message)
               THEN [called EXCEPT !.stage = "raised", !.error = "constructor"]
               ELSE IF words = << >>
               THEN [called EXCEPT !.stage = "raised", !.error = "IndexError"]
               ELSE IF words[1] \in ocr_ctor.pending
               THEN [called EXCEPT !.pending = @ \ {words[1]}]
               ELSE [called EXCEPT !.stage = "raised", !.error = "constructor"]
    /\ UNCHANGED <<base_vars, ocr_env, ocr_chain, image, trload_vars, ocr_store, ocr_keys>>

\* ------------------------------------------------- returning to the caller
Engine(e) == [NoRet EXCEPT !.kind = "engine", !.engine = e.id]
Raised == [NoRet EXCEPT !.kind = "raise"]
Bool(b) == [NoRet EXCEPT !.kind = IF b THEN "true" ELSE "false"]

\* Where the caller of load_ocr_engine continues with return value r:
\* do_ocr runs the engine (which may raise) and /ocr answers 200 or 500,
\* /ocr/preload answers loaded or 500, background_preload goes on to set
\* ocr_ready or loading_error, or to its next preload_ocr entry.
PcAfterOcrLoad(p, r) ==
    CASE ctx[p] = "bg_default" -> IF r.kind = "engine" THEN "bg_ocr_ready" ELSE "bg_ocr_except"
      [] ctx[p] = "bg_extra" -> "bg_extra_next"
      [] OTHER -> "done"

RespAfterOcrLoad(p, r, infer_ok) ==
    CASE ctx[p] = "ocr" ->
            IF r.kind = "engine" /\ infer_ok THEN 200
            ELSE 500
      [] ctx[p] = "preload" ->
            IF r.kind = "engine" THEN 200
            ELSE 500
      [] OTHER -> resp[p]

ReturnFromOcrLoad(p, r) ==
    /\ ret' = [ret EXCEPT ![p] = r]
    /\ ctx' = [ctx EXCEPT ![p] = IF p = BG THEN @ ELSE "none"]
    /\ pc' = [pc EXCEPT ![p] = PcAfterOcrLoad(p, r)]
    /\ \E infer_ok \in BOOLEAN :
         resp' = [resp EXCEPT ![p] = RespAfterOcrLoad(p, r, infer_ok)]

\* ------------------------------------------- ServiceState.load_ocr_engine
\* Lock-free fast path: the key is in the cache, return the cached engine.
LoadOcrEngineFast(p) ==
    /\ pc[p] = "ocr_fast"
    /\ IF key[p] \in DOMAIN ocr_engines
       THEN ReturnFromOcrLoad(p, Engine(ocr_engines[key[p]]))
       ELSE /\ pc' = [pc EXCEPT ![p] = "ocr_lock"]
            /\ UNCHANGED <<ret, resp, ctx>>
    /\ UNCHANGED <<state_vars, flag_vars, rest_vars, accepting, key, bg_i,
                   exec_vars, gen, ghost_vars>>

\* A load that enters the lock and constructs without looking at the cache
\* again.
LoadOcrEngineLockNoRecheck(p) ==
    /\ pc[p] = "ocr_lock"
    /\ ocr_lock = Free
    /\ ocr_lock' = <<"proc", p>>
    /\ pc' = [pc EXCEPT ![p] = "ocr_build"]
    /\ UNCHANGED <<ocr_engines, translate_model, translate_repo, translate_file,
                   translate_lock, translate_load_lock, ret, resp>>
    /\ UNCHANGED <<flag_vars, rest_vars, accepting, ctx, key, bg_i, exec_vars, gen, ghost_vars>>

\* A load whose lock is one per cache key: it waits only for a holder
\* that loads the same key.
LoadOcrEngineLockPerKey(p) ==
    /\ pc[p] = "ocr_lock"
    /\ ocr_lock = Free \/ key[ocr_lock[2]] # key[p]
    /\ IF key[p] \in DOMAIN ocr_engines
       THEN /\ ReturnFromOcrLoad(p, Engine(ocr_engines[key[p]]))
            /\ UNCHANGED ocr_lock
       ELSE /\ ocr_lock' = <<"proc", p>>
            /\ pc' = [pc EXCEPT ![p] = "ocr_build"]
            /\ UNCHANGED <<ret, resp, ctx>>
    /\ UNCHANGED <<ocr_engines, translate_model, translate_repo, translate_file,
                   translate_lock, translate_load_lock>>
    /\ UNCHANGED <<flag_vars, rest_vars, accepting, key, bg_i, exec_vars, gen, ghost_vars>>

\* with self._ocr_lock: the second look at the cache. A hit leaves the lock
\* at once with the cached engine; a miss starts construction, lock held.
LoadOcrEngineLock(p) ==
    /\ pc[p] = "ocr_lock"
    /\ ocr_lock = Free
    /\ IF key[p] \in DOMAIN ocr_engines
       THEN /\ ReturnFromOcrLoad(p, Engine(ocr_engines[key[p]]))
            /\ UNCHANGED ocr_lock
       ELSE /\ ocr_lock' = <<"proc", p>>
            /\ pc' = [pc EXCEPT ![p] = "ocr_build"]
            /\ UNCHANGED <<ret, resp, ctx>>
    /\ UNCHANGED <<ocr_engines, translate_model, translate_repo, translate_file,
                   translate_lock, translate_load_lock>>
    /\ UNCHANGED <<flag_vars, rest_vars, accepting, key, bg_i, exec_vars, gen, ghost_vars>>

\* A construction that stores its engine in a fresh cache.
LoadOcrEngineBuildResetsCache(p) ==
    /\ pc[p] = "ocr_build"
    /\ ocr_lock = <<"proc", p>>
    /\ \E b \in OcrOutcomes :
         IF b.kind = "engine"
         THEN LET e == [key |-> key[p], id |-> ctor_count[key[p]] + 1] IN
              /\ ocr_engines' = (key[p] :> e)
              /\ ctor_count' = [ctor_count EXCEPT ![key[p]] = @ + 1]
              /\ ReturnFromOcrLoad(p, Engine(e))
         ELSE /\ ReturnFromOcrLoad(p, Raised)
              /\ UNCHANGED <<ocr_engines, ctor_count>>
    /\ ocr_lock' = Free
    /\ UNCHANGED <<translate_model, translate_repo, translate_file,
                   translate_lock, translate_load_lock>>
    /\ UNCHANGED <<flag_vars, rest_vars, accepting, key, bg_i, exec_vars, gen,
                   n_models, ensured>>

\* A construction that releases the lock only on the way out with an
\* engine.
LoadOcrEngineBuildKeepsLock(p) ==
    /\ pc[p] = "ocr_build"
    /\ ocr_lock = <<"proc", p>>
    /\ \E b \in OcrOutcomes :
         IF b.kind = "engine"
         THEN LET e == [key |-> key[p], id |-> ctor_count[key[p]] + 1] IN
              /\ ocr_engines' = (key[p] :> e) @@ ocr_engines
              /\ ctor_count' = [ctor_count EXCEPT ![key[p]] = @ + 1]
              /\ ReturnFromOcrLoad(p, Engine(e))
              /\ ocr_lock' = Free
         ELSE /\ ReturnFromOcrLoad(p, Raised)
              /\ UNCHANGED <<ocr_engines, ctor_count, ocr_lock>>
    /\ UNCHANGED <<translate_model, translate_repo, translate_file,
                   translate_lock, translate_load_lock>>
    /\ UNCHANGED <<flag_vars, rest_vars, accepting, key, bg_i, exec_vars, gen,
                   n_models, ensured>>

\* The construction itself, under the lock: the backend chain either makes
\* an engine, which is stored under the key and returned, or raises; leaving
\* the with block releases the lock both ways. An engine is identified by
\* its key and the number of its construction; the backend it is tagged
\* with is TryBackends' result and is not kept in the cache of the model.
LoadOcrEngineBuild(p) ==
    /\ pc[p] = "ocr_build"
    /\ ocr_lock = <<"proc", p>>
    /\ \E b \in OcrOutcomes :
         IF b.kind = "engine"
         THEN LET e == [key |-> key[p], id |-> ctor_count[key[p]] + 1] IN
              /\ ocr_engines' = (key[p] :> e) @@ ocr_engines
              /\ ctor_count' = [ctor_count EXCEPT ![key[p]] = @ + 1]
              /\ ReturnFromOcrLoad(p, Engine(e))
         ELSE /\ ReturnFromOcrLoad(p, Raised)
              /\ UNCHANGED <<ocr_engines, ctor_count>>
    /\ ocr_lock' = Free
    /\ UNCHANGED <<translate_model, translate_repo, translate_file,
                   translate_lock, translate_load_lock>>
    /\ UNCHANGED <<flag_vars, rest_vars, accepting, key, bg_i, exec_vars, gen,
                   n_models, ensured>>

LoadOcrEngine(p) ==
    \/ LoadOcrEngineFast(p)
    \/ LoadOcrEngineLock(p)
    \/ LoadOcrEngineBuild(p)

\* ------------------------------------------------------------ OCR handlers
\* POST /ocr: 503 while ocr_loading, 400 on a payload that is not base64,
\* otherwise do_ocr, which starts with load_ocr_engine.
Ocr(t) ==
    /\ pc[t] = "idle"
    /\ accepting
    /\ \E m \in ModelTypes, l \in Langs, b64_ok \in BOOLEAN :
         /\ IF ocr_loading
            THEN /\ resp' = [resp EXCEPT ![t] = 503]
                 /\ pc' = [pc EXCEPT ![t] = "done"]
                 /\ ctx' = [ctx EXCEPT ![t] = "ocr"]
                 /\ UNCHANGED key
            ELSE IF ~b64_ok
            THEN /\ resp' = [resp EXCEPT ![t] = 400]
                 /\ pc' = [pc EXCEPT ![t] = "done"]
                 /\ ctx' = [ctx EXCEPT ![t] = "ocr"]
                 /\ UNCHANGED key
            ELSE /\ pc' = [pc EXCEPT ![t] = "ocr_fast"]
                 /\ ctx' = [ctx EXCEPT ![t] = "ocr"]
                 /\ key' = [key EXCEPT ![t] = CacheKey(m, l)]
                 /\ UNCHANGED resp
         /\ req' = [req EXCEPT ![t] = IF b64_ok THEN "valid" ELSE "invalid"]
    /\ UNCHANGED <<state_vars, flag_vars, store_vars, bg_trace, accepting, ret, bg_i,
                   exec_vars, gen, ghost_vars>>

\* POST /ocr/preload: already_loaded when the key is cached, otherwise
\* load_ocr_engine.
PreloadOcr(t) ==
    /\ pc[t] = "idle"
    /\ accepting
    /\ \E m \in ModelTypes, l \in Langs :
         IF CacheKey(m, l) \in DOMAIN ocr_engines
         THEN /\ resp' = [resp EXCEPT ![t] = 200]
              /\ pc' = [pc EXCEPT ![t] = "done"]
              /\ ctx' = [ctx EXCEPT ![t] = "preload"]
              /\ UNCHANGED key
         ELSE /\ pc' = [pc EXCEPT ![t] = "ocr_fast"]
              /\ ctx' = [ctx EXCEPT ![t] = "preload"]
              /\ key' = [key EXCEPT ![t] = CacheKey(m, l)]
              /\ UNCHANGED resp
    /\ UNCHANGED <<state_vars, flag_vars, rest_vars, accepting, ret, bg_i, exec_vars, gen, ghost_vars>>

\* GET /loading_status
loading_status ==
    [ocr |-> [loading |-> ocr_loading,
              ready |-> ocr_ready \/ Cardinality(DOMAIN ocr_engines) > 0,
              loaded_models |-> DOMAIN ocr_engines],
     translate |-> [loading |-> translate_loading,
                    ready |-> translate_ready \/ translate_model # 0,
                    model_file |-> translate_file],
     error |-> loading_error]

\* The response has been sent; the thread takes the next request.
RequestDone(t) ==
    /\ pc[t] = "done"
    /\ pc' = [pc EXCEPT ![t] = "idle"]
    /\ ctx' = [ctx EXCEPT ![t] = "none"]
    /\ key' = [key EXCEPT ![t] = "none"]
    /\ ret' = [ret EXCEPT ![t] = NoRet]
    /\ resp' = [resp EXCEPT ![t] = NoResp]
    /\ gen' = [gen EXCEPT ![t] = NoGen]
    /\ req' = [req EXCEPT ![t] = "none"]
    /\ UNCHANGED <<state_vars, flag_vars, store_vars, bg_trace, accepting, bg_i, exec_vars,
                   ghost_vars>>


\* ------------------------------------------------------------- lifespan
\* lifespan: threading.Thread(target=background_preload).start() when
\* either auto-load flag is configured, no thread otherwise
LifespanSpawn ==
    /\ ~accepting
    /\ pc[BG] = "unborn"
    /\ IF cfg.auto_load_ocr \/ cfg.auto_load_translator
       THEN /\ pc' = [pc EXCEPT ![BG] = "bg_begin"]
            /\ bg_trace' = Append(bg_trace, ThreadStart)
       ELSE /\ pc' = [pc EXCEPT ![BG] = "bg_none"]
            /\ UNCHANGED bg_trace
    /\ UNCHANGED <<state_vars, flag_vars, store_vars, req, accepting, ctx, key, ret, resp,
                   bg_i, exec_vars, gen, ghost_vars>>

\* A startup path that joins the preload thread before it yields.
LifespanYieldJoins ==
    /\ ~accepting
    /\ pc[BG] \in {"bg_none", "bg_done"}
    /\ accepting' = TRUE
    /\ UNCHANGED <<state_vars, flag_vars, rest_vars, proc_vars, exec_vars, gen, ghost_vars>>

\* lifespan: yield, the application serves requests from here on
LifespanYield ==
    /\ ~accepting
    /\ pc[BG] # "unborn"
    /\ accepting' = TRUE
    /\ UNCHANGED <<state_vars, flag_vars, rest_vars, proc_vars, exec_vars, gen, ghost_vars>>

\* ------------------------------------------------ lifespan.background_preload
\* if auto_load_ocr: STATE.ocr_loading = True, then load the default engine
BgOcrBegin ==
    /\ pc[BG] = "bg_begin"
    /\ IF cfg.auto_load_ocr
       THEN /\ ocr_loading' = TRUE
            /\ pc' = [pc EXCEPT ![BG] = "ocr_fast"]
            /\ ctx' = [ctx EXCEPT ![BG] = "bg_default"]
            /\ key' = [key EXCEPT ![BG] = DefaultKey]
            /\ bg_trace' = Append(bg_trace, DefaultKey)
       ELSE /\ pc' = [pc EXCEPT ![BG] = "bg_tr_begin"]
            /\ UNCHANGED <<ocr_loading, ctx, key, bg_trace>>
    /\ UNCHANGED <<state_vars, ocr_ready, translate_loading, translate_ready,
                   loading_error, store_vars, req, accepting, ret, resp, bg_i, exec_vars,
                   gen, ghost_vars>>

\* STATE.ocr_ready = True
BgOcrReady ==
    /\ pc[BG] = "bg_ocr_ready"
    /\ ocr_ready' = TRUE
    /\ pc' = [pc EXCEPT ![BG] = "bg_ocr_finally"]
    /\ UNCHANGED <<state_vars, ocr_loading, translate_loading, translate_ready,
                   loading_error, rest_vars, accepting, ctx, key, ret, resp, bg_i,
                   exec_vars, gen, ghost_vars>>

\* A handler of the default load's failure that ends the thread.
BgOcrExceptAborts ==
    /\ pc[BG] = "bg_ocr_except"
    /\ loading_error' = "ocr_load_failed"
    /\ ocr_loading' = FALSE
    /\ pc' = [pc EXCEPT ![BG] = "bg_done"]
    /\ UNCHANGED <<state_vars, ocr_ready, translate_loading,
                   translate_ready, rest_vars, accepting, ctx, key, ret, resp, bg_i,
                   exec_vars, gen, ghost_vars>>

\* except Exception: STATE.loading_error = "OCR 加载失败: ..."
BgOcrExcept ==
    /\ pc[BG] = "bg_ocr_except"
    /\ loading_error' = "ocr_load_failed"
    /\ pc' = [pc EXCEPT ![BG] = "bg_ocr_finally"]
    /\ UNCHANGED <<state_vars, ocr_loading, ocr_ready, translate_loading,
                   translate_ready, rest_vars, accepting, ctx, key, ret, resp, bg_i,
                   exec_vars, gen, ghost_vars>>

\* A finally block that leaves the flag as it is.
BgOcrFinallyKeepsFlag ==
    /\ pc[BG] = "bg_ocr_finally"
    /\ pc' = [pc EXCEPT ![BG] = "bg_extra"]
    /\ bg_i' = 1
    /\ UNCHANGED <<state_vars, flag_vars, rest_vars, accepting, ctx, key, ret, resp,
                   exec_vars, gen, ghost_vars>>

\* finally: STATE.ocr_loading = False; then the preload_ocr loop starts
BgOcrFinally ==
    /\ pc[BG] = "bg_ocr_finally"
    /\ ocr_loading' = FALSE
    /\ pc' = [pc EXCEPT ![BG] = "bg_extra"]
    /\ bg_i' = 1
    /\ UNCHANGED <<state_vars, ocr_ready, translate_loading, translate_ready,
                   loading_error, rest_vars, accepting, ctx, key, ret, resp,
                   exec_vars, gen, ghost_vars>>

\* for model_config in preload_ocr_list: load the entry unless its key is
\* cached; after the last entry go on to the translation model
BgExtra ==
    /\ pc[BG] = "bg_extra"
    /\ IF bg_i > Len(cfg.preload_ocr)
       THEN /\ pc' = [pc EXCEPT ![BG] = "bg_tr_begin"]
            /\ UNCHANGED <<ctx, key, bg_i, bg_trace>>
       ELSE LET e == cfg.preload_ocr[bg_i]
                k == CacheKey(e.type, e.lang) IN
            /\ bg_trace' = Append(bg_trace, k)
            /\ IF k \notin DOMAIN ocr_engines
               THEN /\ pc' = [pc EXCEPT ![BG] = "ocr_fast"]
                    /\ ctx' = [ctx EXCEPT ![BG] = "bg_extra"]
                    /\ key' = [key EXCEPT ![BG] = k]
                    /\ UNCHANGED bg_i
               ELSE /\ bg_i' = bg_i + 1
                    /\ UNCHANGED <<pc, ctx, key>>
    /\ UNCHANGED <<state_vars, flag_vars, store_vars, req, accepting, ret, resp,
                   exec_vars, gen, ghost_vars>>

\* the entry's load returned or raised (caught and logged): next entry
BgExtraNext ==
    /\ pc[BG] = "bg_extra_next"
    /\ pc' = [pc EXCEPT ![BG] = "bg_extra"]
    /\ bg_i' = bg_i + 1
    /\ UNCHANGED <<state_vars, flag_vars, rest_vars, accepting, ctx, key, ret, resp,
                   exec_vars, gen, ghost_vars>>

\* if auto_load_translator: STATE.translate_loading = True, then
\* ensure_translate_model; otherwise the thread ends
BgTrBegin ==
    /\ pc[BG] = "bg_tr_begin"
    /\ IF cfg.auto_load_translator
       THEN /\ translate_loading' = TRUE
            /\ pc' = [pc EXCEPT ![BG] = "tr_fast"]
            /\ ctx' = [ctx EXCEPT ![BG] = "bg_tr"]
            /\ bg_trace' = Append(bg_trace, TranslateStep)
       ELSE /\ pc' = [pc EXCEPT ![BG] = "bg_done"]
            /\ UNCHANGED <<translate_loading, ctx, bg_trace>>
    /\ UNCHANGED <<state_vars, ocr_loading, ocr_ready, translate_ready,
                   loading_error, store_vars, req, accepting, key, ret, resp, bg_i,
                   exec_vars, gen, ghost_vars>>

\* ensure_translate_model returned True: STATE.translate_ready = True
BgTrReady ==
    /\ pc[BG] = "bg_tr_ready"
    /\ translate_ready' = TRUE
    /\ pc' = [pc EXCEPT ![BG] = "bg_tr_finally"]
    /\ UNCHANGED <<state_vars, ocr_loading, ocr_ready, translate_loading,
                   loading_error, rest_vars, accepting, ctx, key, ret, resp, bg_i,
                   exec_vars, gen, ghost_vars>>

\* A preload that sets the ready flag whatever ensure_translate_model
\* answered.
BgTrFailedSetsReady ==
    /\ pc[BG] = "bg_tr_failed"
    /\ loading_error' = IF ret[BG].kind = "false" THEN "translate_not_found"
                        ELSE "translate_load_failed"
    /\ translate_ready' = TRUE
    /\ pc' = [pc EXCEPT ![BG] = "bg_tr_finally"]
    /\ UNCHANGED <<state_vars, ocr_loading, ocr_ready, translate_loading,
                   rest_vars, accepting, ctx, key, ret, resp, bg_i,
                   exec_vars, gen, ghost_vars>>

\* it returned False ("翻译模型未找到") or raised ("翻译模型加载失败")
BgTrFailed ==
    /\ pc[BG] = "bg_tr_failed"
    /\ loading_error' = IF ret[BG].kind = "false" THEN "translate_not_found"
                        ELSE "translate_load_failed"
    /\ pc' = [pc EXCEPT ![BG] = "bg_tr_finally"]
    /\ UNCHANGED <<state_vars, ocr_loading, ocr_ready, translate_loading,
                   translate_ready, rest_vars, accepting, ctx, key, ret, resp, bg_i,
                   exec_vars, gen, ghost_vars>>

\* finally: STATE.translate_loading = False
BgTrFinally ==
    /\ pc[BG] = "bg_tr_finally"
    /\ translate_loading' = FALSE
    /\ pc' = [pc EXCEPT ![BG] = "bg_done"]
    /\ UNCHANGED <<state_vars, ocr_loading, ocr_ready, translate_ready,
                   loading_error, rest_vars, accepting, ctx, key, ret, resp, bg_i,
                   exec_vars, gen, ghost_vars>>

BackgroundPreload ==
    \/ BgOcrBegin
    \/ BgOcrReady
    \/ BgOcrExcept
    \/ BgOcrFinally
    \/ BgExtra
    \/ BgExtraNext
    \/ BgTrBegin
    \/ BgTrReady
    \/ BgTrFailed
    \/ BgTrFinally


\* ------------------------------------------------- load_translate_model
\* What the environment offers one load_translate_model call.
TrEnvs == [hub : BOOLEAN, llama : BOOLEAN, env_file : BOOLEAN, local : BOOLEAN,
           listing : {"raises", "nomatch", "match"}, is_file : BOOLEAN,
           absolute : BOOLEAN, in_dir : BOOLEAN, download_ok : BOOLEAN,
           ctor_ok : BOOLEAN]

TrNone(repo, file) == [kind |-> "none", repo |-> repo, file |-> file, downloaded |-> FALSE]

\* filename: MODEL_FILE from the environment, else the local *.gguf found
\* under the model directory, else the shortest remote file name matching
\* the quantization tag; "" when none
ResolveFileName(env) ==
    IF env.env_file THEN "env_file"
    ELSE IF env.local THEN "local_file"
    ELSE IF env.listing = "match" THEN "remote_file"
    ELSE ""

\* load_translate_model: (None, None, None) without the libraries,
\* (None, repo, None) when no file name resolves, (None, repo, filename)
\* when the file is neither present nor downloadable, else the Llama
\* constructor's model (or its exception).
LoadTranslateModel(env) ==
    IF ~env.hub \/ ~env.llama THEN TrNone("none", "none")
    ELSE IF ~env.env_file /\ ~env.local /\ env.listing = "raises" THEN TrNone("repo", "none")
    ELSE LET filename == ResolveFileName(env)
             is_file == IF filename = "local_file" THEN TRUE ELSE env.is_file
             absolute == IF filename = "local_file" THEN TRUE ELSE env.absolute
             download == ~is_file /\ ~absolute /\ ~env.in_dir
         IN  IF filename = "" THEN TrNone("repo", "none")
             ELSE IF ~is_file /\ absolute THEN TrNone("repo", filename)
             ELSE IF download /\ ~env.download_ok THEN TrNone("repo", filename)
             ELSE [kind |-> IF env.ctor_ok THEN "model" ELSE "raise",
                   repo |-> "repo", file |-> filename, downloaded |-> download]

TrOutcomes == {LoadTranslateModel(env) : env \in TrEnvs}

\* ------------------------------------------------- do_ocr: image resizing
\* MIN_OCR_SIZE = 32
MIN_OCR_SIZE == 32

\* Widths and heights of decoded images, and the values of
\* paddleocr.min_side_for_upscale and paddleocr.max_side (100 and 1800 in
\* DEFAULT_CONFIG).
Sides == {1, 20, 31, 32, 50, 97, 99, 100, 101, 1000, 1800, 1801, 2235, 3000}
MinSides == {20, 100}
MaxSides == {200, 1800}

Min2(a, b) == IF a < b THEN a ELSE b
Max2(a, b) == IF a > b THEN a ELSE b

\* scale = target / ref; int(side * scale): the quotient taken exactly and
\* the product truncated (Python computes the quotient as a float).
ScaleSide(side, target, ref) == (side * target) \div ref

\* An upscaling that takes its factor from the larger side.
UpscaleSizeByLargerSide(w, h, min_side) ==
    IF Min2(w, h) < min_side
    THEN <<ScaleSide(w, min_side, Max2(w, h)), ScaleSide(h, min_side, Max2(w, h))>>
    ELSE <<w, h>>

\* if min(width, height) < MIN_SIDE_FOR_UPSCALE: resize both sides by
\* MIN_SIDE_FOR_UPSCALE / min(width, height)
UpscaleSize(w, h, min_side) ==
    IF Min2(w, h) < min_side
    THEN <<ScaleSide(w, min_side, Min2(w, h)), ScaleSide(h, min_side, Min2(w, h))>>
    ELSE <<w, h>>

\* if max(width, height) > MAX_SIDE: resize both sides by
\* MAX_SIDE / max(width, height)
DownscaleSize(w, h, max_side) ==
    IF Max2(w, h) > max_side
    THEN <<ScaleSide(w, max_side, Max2(w, h)), ScaleSide(h, max_side, Max2(w, h))>>
    ELSE <<w, h>>

\* width, height = image.size, then the upscaling block
DoOcrUpscale ==
    /\ image.stage = "decoded"
    /\ LET size == UpscaleSize(image.w0, image.h0, image.min_side_for_upscale)
       IN  image' = [image EXCEPT !.stage = "upscaled", !.w1 = size[1], !.h1 = size[2]]
    /\ UNCHANGED <<state_vars, flag_vars, cfg, config_vars, log_vars, ocr_env, ocr_chain,
                   trload_vars, more_vars, req, bg_trace, accepting, proc_vars, exec_vars, gen,
                   ghost_vars>>

\* if width < MIN_OCR_SIZE or height < MIN_OCR_SIZE: return ""
DoOcrSizeCheck ==
    /\ image.stage = "upscaled"
    /\ image' = [image EXCEPT !.stage = IF image.w1 < MIN_OCR_SIZE \/ image.h1 < MIN_OCR_SIZE
                                        THEN "rejected" ELSE "checked"]
    /\ UNCHANGED <<state_vars, flag_vars, cfg, config_vars, log_vars, ocr_env, ocr_chain,
                   trload_vars, more_vars, req, bg_trace, accepting, proc_vars, exec_vars, gen,
                   ghost_vars>>

\* the downscaling block, then img_array = np.array(image)
DoOcrDownscale ==
    /\ image.stage = "checked"
    /\ LET size == DownscaleSize(image.w1, image.h1, image.max_side)
       IN  image' = [image EXCEPT !.stage = "array", !.w2 = size[1], !.h2 = size[2]]
    /\ UNCHANGED <<state_vars, flag_vars, cfg, config_vars, log_vars, ocr_env, ocr_chain,
                   trload_vars, more_vars, req, bg_trace, accepting, proc_vars, exec_vars, gen,
                   ghost_vars>>

\* One call of load_translate_model in the environment and with the
\* configuration drawn at the start.
LoadTranslateModelCall ==
    /\ tr_load = NoLoad
    /\ tr_env # NoTrEnv
    /\ tr_load' = LoadTranslateModel(tr_env)
    /\ UNCHANGED <<state_vars, flag_vars, cfg, config_vars, log_vars, ocr_env, ocr_chain,
                   image, tr_env, tr_auto_download, more_vars, req, bg_trace, accepting, proc_vars,
                   exec_vars, gen, ghost_vars>>

\* -------------------------------------- ServiceState.ensure_translate_model
\* Where the caller of ensure_translate_model continues.
PcAfterEnsure(p, r) ==
    CASE ctx[p] = "bg_tr" -> IF r.kind = "true" THEN "bg_tr_ready" ELSE "bg_tr_failed"
      [] ctx[p] = "translate" -> IF r.kind = "true" THEN "tr_submit" ELSE "done"
      [] ctx[p] = "stream" -> IF r.kind = "true" THEN "gen_new" ELSE "done"
      [] OTHER -> "done"

\* /translate and /translate_stream answer 503 on False; an exception that
\* leaves ensure_translate_model is not caught by the handler (500).
RespAfterEnsure(p, r) ==
    IF ctx[p] \in {"translate", "stream"}
    THEN CASE r.kind = "false" -> 503
           [] r.kind = "raise" -> 500
           [] OTHER -> IF ctx[p] = "stream" THEN 200
                       ELSE resp[p]
    ELSE resp[p]

ReturnFromEnsure(p, r) ==
    /\ ret' = [ret EXCEPT ![p] = r]
    /\ ctx' = [ctx EXCEPT ![p] = IF p = BG \/ PcAfterEnsure(p, r) # "done" THEN @ ELSE "none"]
    /\ ensured' = (ensured \/ r.kind = "true")
    /\ pc' = [pc EXCEPT ![p] = PcAfterEnsure(p, r)]
    /\ resp' = [resp EXCEPT ![p] = RespAfterEnsure(p, r)]

\* if self.translate_model is not None: return True
EnsureFast(p) ==
    /\ pc[p] = "tr_fast"
    /\ IF translate_model # 0
       THEN ReturnFromEnsure(p, Bool(TRUE))
       ELSE /\ pc' = [pc EXCEPT ![p] = "tr_lock"]
            /\ UNCHANGED <<ret, resp, ctx, ensured>>
    /\ UNCHANGED <<state_vars, flag_vars, rest_vars, accepting, key, bg_i, exec_vars, gen,
                   ctor_count, n_models>>

\* An ensure that takes the load lock and loads without the second look.
EnsureLockNoRecheck(p) ==
    /\ pc[p] = "tr_lock"
    /\ translate_load_lock = Free
    /\ translate_load_lock' = <<"proc", p>>
    /\ pc' = [pc EXCEPT ![p] = "tr_load"]
    /\ UNCHANGED <<ocr_engines, translate_model, translate_repo, translate_file,
                   ocr_lock, translate_lock>>
    /\ UNCHANGED <<flag_vars, rest_vars, accepting, ctx, key, ret, resp, bg_i, exec_vars,
                   gen, ghost_vars>>

\* An ensure whose load lock does not exclude other loaders.
EnsureLockNoLock(p) ==
    /\ pc[p] = "tr_lock"
    /\ IF translate_model # 0
       THEN /\ ReturnFromEnsure(p, Bool(TRUE))
            /\ UNCHANGED translate_load_lock
       ELSE /\ translate_load_lock' = <<"proc", p>>
            /\ pc' = [pc EXCEPT ![p] = "tr_load"]
            /\ UNCHANGED <<ret, resp, ctx, ensured>>
    /\ UNCHANGED <<ocr_engines, translate_model, translate_repo, translate_file,
                   ocr_lock, translate_lock>>
    /\ UNCHANGED <<flag_vars, rest_vars, accepting, key, bg_i, exec_vars, gen, ctor_count,
                   n_models>>

\* with self._translate_load_lock: the second look; a filled slot returns
\* True at once, an empty one calls load_translate_model with the lock held
EnsureLock(p) ==
    /\ pc[p] = "tr_lock"
    /\ translate_load_lock = Free
    /\ IF translate_model # 0
       THEN /\ ReturnFromEnsure(p, Bool(TRUE))
            /\ UNCHANGED translate_load_lock
       ELSE /\ translate_load_lock' = <<"proc", p>>
            /\ pc' = [pc EXCEPT ![p] = "tr_load"]
            /\ UNCHANGED <<ret, resp, ctx, ensured>>
    /\ UNCHANGED <<ocr_engines, translate_model, translate_repo, translate_file,
                   ocr_lock, translate_lock>>
    /\ UNCHANGED <<flag_vars, rest_vars, accepting, key, bg_i, exec_vars, gen, ctor_count,
                   n_models>>

\* An ensure that keeps the repository and file name of a load that found
\* no model.
EnsureLoadKeepsNames(p) ==
    /\ pc[p] = "tr_load"
    /\ \E r \in TrOutcomes :
         CASE r.kind = "model" ->
                /\ translate_model' = n_models + 1
                /\ n_models' = n_models + 1
                /\ ret' = [ret EXCEPT ![p] = [NoRet EXCEPT !.kind = "model",
                                               !.repo = r.repo, !.file = r.file]]
                /\ pc' = [pc EXCEPT ![p] = "tr_set_repo"]
                /\ UNCHANGED <<translate_load_lock, resp, ctx, ensured, translate_repo,
                               translate_file>>
           [] r.kind = "none" ->
                /\ ReturnFromEnsure(p, Bool(FALSE))
                /\ translate_load_lock' = Free
                /\ translate_repo' = r.repo
                /\ translate_file' = r.file
                /\ UNCHANGED <<translate_model, n_models>>
           [] OTHER ->
                /\ ReturnFromEnsure(p, Raised)
                /\ translate_load_lock' = Free
                /\ UNCHANGED <<translate_model, n_models, translate_repo, translate_file>>
    /\ UNCHANGED <<ocr_engines, ocr_lock, translate_lock>>
    /\ UNCHANGED <<flag_vars, rest_vars, accepting, key, bg_i, exec_vars, gen, ctor_count>>

\* load_translate_model returns: a model is stored in the slot
\* (self.translate_model = model), no model returns False, an exception
\* leaves the with block; the last two release the lock
EnsureLoad(p) ==
    /\ pc[p] = "tr_load"
    /\ \E r \in TrOutcomes :
         CASE r.kind = "model" ->
                /\ translate_model' = n_models + 1
                /\ n_models' = n_models + 1
                /\ ret' = [ret EXCEPT ![p] = [NoRet EXCEPT !.kind = "model",
                                               !.repo = r.repo, !.file = r.file]]
                /\ pc' = [pc EXCEPT ![p] = "tr_set_repo"]
                /\ UNCHANGED <<translate_load_lock, resp, ctx, ensured>>
           [] r.kind = "none" ->
                /\ ReturnFromEnsure(p, Bool(FALSE))
                /\ translate_load_lock' = Free
                /\ UNCHANGED <<translate_model, n_models>>
           [] OTHER ->
                /\ ReturnFromEnsure(p, Raised)
                /\ translate_load_lock' = Free
                /\ UNCHANGED <<translate_model, n_models>>
    /\ UNCHANGED <<ocr_engines, translate_repo, translate_file, ocr_lock, translate_lock>>
    /\ UNCHANGED <<flag_vars, rest_vars, accepting, key, bg_i, exec_vars, gen, ctor_count>>

\* self.translate_repo = repo
EnsureSetRepo(p) ==
    /\ pc[p] = "tr_set_repo"
    /\ translate_repo' = ret[p].repo
    /\ pc' = [pc EXCEPT ![p] = "tr_set_file"]
    /\ UNCHANGED <<ocr_engines, translate_model, translate_file,
                   ocr_lock, translate_lock, translate_load_lock>>
    /\ UNCHANGED <<flag_vars, rest_vars, accepting, ctx, key, ret, resp, bg_i, exec_vars,
                   gen, ghost_vars>>

\* self.translate_file = filename; return True, releasing the lock
EnsureSetFile(p) ==
    /\ pc[p] = "tr_set_file"
    /\ translate_file' = ret[p].file
    /\ translate_load_lock' = Free
    /\ ReturnFromEnsure(p, Bool(TRUE))
    /\ UNCHANGED <<ocr_engines, translate_model, translate_repo, ocr_lock, translate_lock>>
    /\ UNCHANGED <<flag_vars, rest_vars, accepting, key, bg_i, exec_vars, gen, ctor_count,
                   n_models>>

EnsureTranslateModel(p) ==
    \/ EnsureFast(p)
    \/ EnsureLock(p)
    \/ EnsureLoad(p)
    \/ EnsureSetRepo(p)
    \/ EnsureSetFile(p)


\* ------------------------------------------------------ translate handlers
\* The opening with the loading test ahead of the text test, as POST /ocr
\* orders them.
TranslateOpeningLoadingFirst(t, handler) ==
    /\ pc[t] = "idle"
    /\ accepting
    /\ ctx' = [ctx EXCEPT ![t] = handler]
    /\ \E empty \in BOOLEAN :
         /\ req' = [req EXCEPT ![t] = IF empty THEN "invalid" ELSE "valid"]
         /\ IF translate_loading
            THEN /\ resp' = [resp EXCEPT ![t] = 503]
                 /\ pc' = [pc EXCEPT ![t] = "done"]
            ELSE IF empty
            THEN /\ resp' = [resp EXCEPT ![t] = 400]
                 /\ pc' = [pc EXCEPT ![t] = "done"]
            ELSE /\ pc' = [pc EXCEPT ![t] = "tr_fast"]
                 /\ UNCHANGED resp
    /\ UNCHANGED <<state_vars, flag_vars, store_vars, bg_trace, accepting, key, ret, bg_i, exec_vars,
                   gen, ghost_vars>>

\* The common opening of POST /translate and POST /translate_stream:
\* 400 on empty text, 503 while translate_loading, otherwise
\* ensure_translate_model.
TranslateOpening(t, handler) ==
    /\ pc[t] = "idle"
    /\ accepting
    /\ ctx' = [ctx EXCEPT ![t] = handler]
    /\ \E empty \in BOOLEAN :
         /\ req' = [req EXCEPT ![t] = IF empty THEN "invalid" ELSE "valid"]
         /\ IF empty
            THEN /\ resp' = [resp EXCEPT ![t] = 400]
                 /\ pc' = [pc EXCEPT ![t] = "done"]
            ELSE IF translate_loading
            THEN /\ resp' = [resp EXCEPT ![t] = 503]
                 /\ pc' = [pc EXCEPT ![t] = "done"]
            ELSE /\ pc' = [pc EXCEPT ![t] = "tr_fast"]
                 /\ UNCHANGED resp
    /\ UNCHANGED <<state_vars, flag_vars, store_vars, bg_trace, accepting, key, ret, bg_i, exec_vars,
                   gen, ghost_vars>>

\* POST /translate
Translate(t) == TranslateOpening(t, "translate")

\* POST /translate_stream
TranslateStream(t) == TranslateOpening(t, "stream")

FreeTasks == {i \in TaskIds : task[i] = "free"}
Running == {i \in TaskIds : task[i] \in {"wantlock", "infer"}}

\* future = _executor.submit(do_inference)
Submit(t) ==
    /\ pc[t] = "tr_submit"
    /\ FreeTasks # {}
    /\ LET i == CHOOSE j \in FreeTasks : \A k \in FreeTasks : j <= k IN
         /\ task' = [task EXCEPT ![i] = "queued"]
         /\ queue' = Append(queue, i)
         /\ fut' = [fut EXCEPT ![t] = i]
    /\ pc' = [pc EXCEPT ![t] = "tr_wait"]
    /\ UNCHANGED <<state_vars, flag_vars, rest_vars, accepting, ctx, key, ret, resp, bg_i,
                   gen, ghost_vars>>

\* A pool worker (at most max_workers of them) takes the oldest queued task.
WorkerTake ==
    /\ queue # << >>
    /\ Cardinality(Running) < MaxWorkers
    /\ task' = [task EXCEPT ![Head(queue)] = "wantlock"]
    /\ queue' = Tail(queue)
    /\ UNCHANGED <<state_vars, flag_vars, rest_vars, accepting, proc_vars, fut, gen, ghost_vars>>

\* A do_inference that calls the model without taking the lock.
DoInferenceEnterNoLock(i) ==
    /\ task[i] = "wantlock"
    /\ task' = [task EXCEPT ![i] = "infer"]
    /\ UNCHANGED <<state_vars, flag_vars, rest_vars, accepting, proc_vars, queue, fut, gen,
                   ghost_vars>>

\* do_inference: with STATE._translate_lock: create_completion starts
DoInferenceEnter(i) ==
    /\ task[i] = "wantlock"
    /\ translate_lock = Free
    /\ translate_lock' = <<"task", i>>
    /\ task' = [task EXCEPT ![i] = "infer"]
    /\ UNCHANGED <<ocr_engines, translate_model, translate_repo, translate_file,
                   ocr_lock, translate_load_lock>>
    /\ UNCHANGED <<flag_vars, rest_vars, accepting, proc_vars, queue, fut, gen, ghost_vars>>

\* A do_inference that releases the lock by hand after the call: an
\* exception of the model leaves it held.
DoInferenceLeaveKeepsLockOnError(i) ==
    /\ task[i] = "infer"
    /\ \E ok \in BOOLEAN :
         /\ translate_lock' = IF ok /\ translate_lock = <<"task", i>> THEN Free
                               ELSE translate_lock
         /\ task' = [task EXCEPT ![i] =
                      IF \E t \in Threads : pc[t] = "tr_wait" /\ fut[t] = i
                      THEN (IF ok THEN "result" ELSE "exception")
                      ELSE "free"]
    /\ UNCHANGED <<ocr_engines, translate_model, translate_repo, translate_file,
                   ocr_lock, translate_load_lock>>
    /\ UNCHANGED <<flag_vars, rest_vars, accepting, proc_vars, queue, fut, gen, ghost_vars>>

\* create_completion returns or raises; the lock is released and the
\* future holds the result or the exception. A future nobody waits for any
\* more (its request timed out) is dropped.
DoInferenceLeave(i) ==
    /\ task[i] = "infer"
    /\ translate_lock' = IF translate_lock = <<"task", i>> THEN Free ELSE translate_lock
    /\ \E ok \in BOOLEAN :
         task' = [task EXCEPT ![i] =
                    IF \E t \in Threads : pc[t] = "tr_wait" /\ fut[t] = i
                    THEN (IF ok THEN "result" ELSE "exception")
                    ELSE "free"]
    /\ UNCHANGED <<ocr_engines, translate_model, translate_repo, translate_file,
                   ocr_lock, translate_load_lock>>
    /\ UNCHANGED <<flag_vars, rest_vars, accepting, proc_vars, queue, fut, gen, ghost_vars>>

\* future.result(timeout=TRANSLATE_TIMEOUT) returns: 200, or 500 when the
\* inference raised
FutureResult(t) ==
    /\ pc[t] = "tr_wait"
    /\ task[fut[t]] \in {"result", "exception"}
    /\ resp' = [resp EXCEPT ![t] =
                  IF task[fut[t]] = "result" THEN 200
                  ELSE 500]
    /\ task' = [task EXCEPT ![fut[t]] = "free"]
    /\ fut' = [fut EXCEPT ![t] = 0]
    /\ pc' = [pc EXCEPT ![t] = "done"]
    /\ UNCHANGED <<state_vars, flag_vars, rest_vars, accepting, ctx, key, ret, bg_i, queue,
                   gen, ghost_vars>>

\* A handler that cancels its future on timeout: a task still queued is
\* taken off the queue, a running one is stopped and its lock let go.
FutureTimeoutCancels(t) ==
    /\ pc[t] = "tr_wait"
    /\ task[fut[t]] \in {"queued", "wantlock", "infer"}
    /\ resp' = [resp EXCEPT ![t] = 504]
    /\ fut' = [fut EXCEPT ![t] = 0]
    /\ pc' = [pc EXCEPT ![t] = "done"]
    /\ task' = [task EXCEPT ![fut[t]] = "free"]
    /\ queue' = SelectSeq(queue, LAMBDA i : i # fut[t])
    /\ translate_lock' = IF translate_lock = <<"task", fut[t]>> THEN Free ELSE translate_lock
    /\ UNCHANGED <<ocr_engines, translate_model, translate_repo, translate_file,
                   ocr_lock, translate_load_lock>>
    /\ UNCHANGED <<flag_vars, rest_vars, accepting, ctx, key, ret, bg_i, gen, ghost_vars>>

\* future.result raises TimeoutError: 504; the task is left as it is
FutureTimeout(t) ==
    /\ pc[t] = "tr_wait"
    /\ task[fut[t]] \in {"queued", "wantlock", "infer"}
    /\ resp' = [resp EXCEPT ![t] = 504]
    /\ fut' = [fut EXCEPT ![t] = 0]
    /\ pc' = [pc EXCEPT ![t] = "done"]
    /\ UNCHANGED <<state_vars, flag_vars, rest_vars, accepting, ctx, key, ret, bg_i, queue,
                   task, gen, ghost_vars>>

Executor ==
    \/ WorkerTake
    \/ \E i \in TaskIds : DoInferenceEnter(i)
    \/ \E i \in TaskIds : DoInferenceLeave(i)


\* ------------------------------------------ translate_stream.generator
\* The text of the token events: chunks without text emit nothing.
RECURSIVE TokenEvents(_)
TokenEvents(chunks) ==
    IF chunks = << >> THEN << >>
    ELSE IF Head(chunks) # "" THEN <<Head(chunks)>> \o TokenEvents(Tail(chunks))
    ELSE TokenEvents(Tail(chunks))

\* First next() on the generator: with STATE._translate_lock, then
\* create_completion(stream=True). If that call raises, the finally block
\* finds stream None, the lock is released and the exception leaves.
GenStart(t) ==
    /\ pc[t] = "gen_new"
    /\ translate_lock = Free
    /\ \E ok \in BOOLEAN :
         IF ok
         THEN /\ translate_lock' = <<"gen", t>>
              /\ gen' = [gen EXCEPT ![t].stream = "open"]
              /\ pc' = [pc EXCEPT ![t] = "gen_run"]
         ELSE /\ gen' = [gen EXCEPT ![t].out = "error"]
              /\ pc' = [pc EXCEPT ![t] = "done"]
              /\ UNCHANGED translate_lock
    /\ UNCHANGED <<ocr_engines, translate_model, translate_repo, translate_file,
                   ocr_lock, translate_load_lock>>
    /\ UNCHANGED <<flag_vars, rest_vars, accepting, ctx, key, ret, resp, bg_i, exec_vars,
                   ghost_vars>>

\* A loop that yields an event for every chunk, text or not.
GenNextChunkNoFilter(t) ==
    /\ pc[t] = "gen_run"
    /\ Len(gen[t].pulled) < MaxChunks
    /\ \E c \in Tokens(Len(gen[t].pulled) + 1) :
         /\ gen' = [gen EXCEPT ![t].pulled = Append(@, c), ![t].sent = Append(@, c)]
         /\ pc' = [pc EXCEPT ![t] = "gen_yield"]
    /\ UNCHANGED <<state_vars, flag_vars, rest_vars, accepting, ctx, key, ret, resp, bg_i,
                   exec_vars, ghost_vars>>

\* for chunk in stream: a chunk with text is yielded as a token event and
\* the generator is suspended at the yield; a chunk without text is skipped
GenNextChunk(t) ==
    /\ pc[t] = "gen_run"
    /\ Len(gen[t].pulled) < MaxChunks
    /\ \E c \in Tokens(Len(gen[t].pulled) + 1) :
         IF c # ""
         THEN /\ gen' = [gen EXCEPT ![t].pulled = Append(@, c), ![t].sent = Append(@, c)]
              /\ pc' = [pc EXCEPT ![t] = "gen_yield"]
         ELSE /\ gen' = [gen EXCEPT ![t].pulled = Append(@, c)]
              /\ UNCHANGED pc
    /\ UNCHANGED <<state_vars, flag_vars, rest_vars, accepting, ctx, key, ret, resp, bg_i,
                   exec_vars, ghost_vars>>

\* the stream is exhausted: yield "data: [DONE]\n\n"
GenExhausted(t) ==
    /\ pc[t] = "gen_run"
    /\ gen' = [gen EXCEPT ![t].sent = Append(@, DONE)]
    /\ pc' = [pc EXCEPT ![t] = "gen_yield_done"]
    /\ UNCHANGED <<state_vars, flag_vars, rest_vars, accepting, ctx, key, ret, resp, bg_i,
                   exec_vars, ghost_vars>>

\* the model raises while the stream is iterated: finally closes the
\* stream, the with block releases the lock, the exception leaves
GenRaise(t) ==
    /\ pc[t] = "gen_run"
    /\ gen' = [gen EXCEPT ![t] = [NoGen EXCEPT !.stream = "closed", !.out = "error"]]
    /\ translate_lock' = Free
    /\ pc' = [pc EXCEPT ![t] = "done"]
    /\ UNCHANGED <<ocr_engines, translate_model, translate_repo, translate_file,
                   ocr_lock, translate_load_lock>>
    /\ UNCHANGED <<flag_vars, rest_vars, accepting, ctx, key, ret, resp, bg_i, exec_vars,
                   ghost_vars>>

\* the response asks for the next event after a token event
GenResume(t) ==
    /\ pc[t] = "gen_yield"
    /\ pc' = [pc EXCEPT ![t] = "gen_run"]
    /\ UNCHANGED <<state_vars, flag_vars, rest_vars, accepting, ctx, key, ret, resp, bg_i,
                   exec_vars, gen, ghost_vars>>

\* resumed after [DONE]: the timing log, finally: stream.close(), the lock
\* is released and the generator ends
GenFinish(t) ==
    /\ pc[t] = "gen_yield_done"
    /\ gen' = [gen EXCEPT ![t] = [NoGen EXCEPT !.stream = "closed", !.out = "completed"]]
    /\ translate_lock' = Free
    /\ pc' = [pc EXCEPT ![t] = "done"]
    /\ UNCHANGED <<ocr_engines, translate_model, translate_repo, translate_file,
                   ocr_lock, translate_load_lock>>
    /\ UNCHANGED <<flag_vars, rest_vars, accepting, ctx, key, ret, resp, bg_i, exec_vars,
                   ghost_vars>>

\* A disconnect handler without the finally block: the stream stays open.
GenDisconnectNoCleanup(t) ==
    /\ pc[t] \in {"gen_yield", "gen_yield_done"}
    /\ gen' = [gen EXCEPT ![t] = [NoGen EXCEPT !.sent = gen[t].sent,
                                             !.stream = gen[t].stream, !.out = "cancelled"]]
    /\ translate_lock' = Free
    /\ pc' = [pc EXCEPT ![t] = "done"]
    /\ UNCHANGED <<ocr_engines, translate_model, translate_repo, translate_file,
                   ocr_lock, translate_load_lock>>
    /\ UNCHANGED <<flag_vars, rest_vars, accepting, ctx, key, ret, resp, bg_i, exec_vars,
                   ghost_vars>>

\* The client disconnects: GeneratorExit is raised at the yield where the
\* generator is suspended. except GeneratorExit logs the cancellation,
\* finally: stream.close(), the with block releases the lock, and the
\* generator returns.
GenDisconnect(t) ==
    /\ pc[t] \in {"gen_yield", "gen_yield_done"}
    /\ gen' = [gen EXCEPT ![t] = [NoGen EXCEPT !.sent = gen[t].sent,
                                             !.stream = "closed", !.out = "cancelled"]]
    /\ translate_lock' = Free
    /\ pc' = [pc EXCEPT ![t] = "done"]
    /\ UNCHANGED <<ocr_engines, translate_model, translate_repo, translate_file,
                   ocr_lock, translate_load_lock>>
    /\ UNCHANGED <<flag_vars, rest_vars, accepting, ctx, key, ret, resp, bg_i, exec_vars,
                   ghost_vars>>

Generator(t) ==
    \/ GenStart(t)
    \/ GenNextChunk(t)
    \/ GenExhausted(t)
    \/ GenRaise(t)
    \/ GenResume(t)
    \/ GenFinish(t)
    \/ GenDisconnect(t)

\* ------------------------------------------------------- specifications
Lifespan == LifespanSpawn \/ LifespanYield

OcrRequest(t) == Ocr(t) \/ PreloadOcr(t) \/ RequestDone(t)

TranslateRequest(t) ==
    \/ Translate(t)
    \/ TranslateStream(t)
    \/ Submit(t)
    \/ FutureResult(t)
    \/ FutureTimeout(t)
    \/ Generator(t)
    \/ RequestDone(t)

\* The OCR side of the service: lifespan, the preload thread with
\* startup.auto_load_translator off, and the threads serving /ocr and
\* /ocr/preload.
InitOcr ==
    /\ Init
    /\ config_file = NoFile
    /\ ~cfg.auto_load_translator
    /\ cfg.preload_ocr \in PreloadLists
    /\ cfg.auto_load_ocr \/ cfg.preload_ocr = << >>

BackgroundPreloadOcr ==
    \/ BgOcrBegin
    \/ BgOcrReady
    \/ BgOcrExcept
    \/ BgOcrFinally
    \/ BgExtra
    \/ BgExtraNext
    \/ BgTrBegin

NextOcr ==
    \/ Lifespan
    \/ BackgroundPreloadOcr
    \/ \E p \in {BG} \cup OcrThreads : LoadOcrEngine(p)
    \/ \E t \in OcrThreads : OcrRequest(t)

SpecOcr == InitOcr /\ [][NextOcr]_vars

\* The translation side: lifespan, the preload thread with
\* startup.auto_load_ocr off, the threads serving /translate and
\* /translate_stream, and the executor.
InitTranslate ==
    /\ Init
    /\ config_file = NoFile
    /\ ~cfg.auto_load_ocr /\ cfg.preload_ocr = << >>

BackgroundPreloadTranslate ==
    \/ BgOcrBegin
    \/ BgTrBegin
    \/ BgTrReady
    \/ BgTrFailed
    \/ BgTrFinally

NextTranslate ==
    \/ Lifespan
    \/ BackgroundPreloadTranslate
    \/ \E p \in {BG} \cup TrThreads : EnsureTranslateModel(p)
    \/ \E t \in TrThreads : TranslateRequest(t)
    \/ Executor

SpecTranslate == InitTranslate /\ [][NextTranslate]_vars

\* The translation side under fair scheduling: a thread that can take a
\* step takes it; a lock that is free again and again is given to each
\* waiter at some time (the fair lock of the claim); an inference under way
\* ends; a stream is read on or dropped by its client.
FairTranslate ==
    /\ WF_vars(Lifespan \/ BackgroundPreloadTranslate \/ WorkerTake)
    /\ \A p \in {BG} \cup TrThreads : WF_vars(EnsureFast(p) \/ EnsureLoad(p) \/ EnsureSetRepo(p)
                                                \/ EnsureSetFile(p))
    /\ \A p \in {BG} \cup TrThreads : SF_vars(EnsureLock(p))
    /\ \A i \in TaskIds : SF_vars(DoInferenceEnter(i)) /\ WF_vars(DoInferenceLeave(i))
    /\ \A t \in TrThreads :
         /\ SF_vars(GenStart(t))
         /\ WF_vars(GenNextChunk(t) \/ GenExhausted(t) \/ GenRaise(t) \/ GenResume(t)
                    \/ GenFinish(t) \/ GenDisconnect(t))
         /\ WF_vars(Submit(t) \/ FutureResult(t))

SpecTranslateFair == SpecTranslate /\ FairTranslate

\* The service does not start: no preload is configured.
InitIdle ==
    /\ Init
    /\ ~cfg.auto_load_ocr /\ ~cfg.auto_load_translator /\ cfg.preload_ocr = << >>

\* The configuration endpoints, one request at a time.
InitConfigApi == InitIdle

NextConfig ==
    \/ UpdateConfig
    \/ GetConfig

SpecConfig == InitConfigApi /\ [][NextConfig]_vars

\* The log buffer: the logging handler, GET /logs and POST /logs/clear.
InitLogApi == InitIdle /\ config_file = NoFile

NextLogs ==
    \/ LogAdd
    \/ GetLogs
    \/ ClearLogs
    \/ StreamLogsPoll

SpecLogs == InitLogApi /\ [][NextLogs]_vars

\* The backend chain of load_ocr_engine in every environment.
InitBackends ==
    /\ InitService
    /\ ~cfg.auto_load_ocr /\ ~cfg.auto_load_translator /\ cfg.preload_ocr = << >>
    /\ InitConfig /\ config_file = NoFile
    /\ InitLogs
    /\ ocr_env \in OcrEnvs
    /\ ocr_chain = NoChain
    /\ IdleImage
    /\ IdleTrLoad
    /\ IdleMore

NextBackends == TryBackendsCall

SpecBackends == InitBackends /\ [][NextBackends]_vars

\* The preload thread alone, from startup to its end, with every
\* configuration of startup and unified_service.preload_ocr.
InitPreload == Init /\ config_file = NoFile

NextPreload ==
    \/ Lifespan
    \/ BackgroundPreload
    \/ LoadOcrEngine(BG)
    \/ EnsureTranslateModel(BG)

SpecPreload == InitPreload /\ [][NextPreload]_vars

\* The resizing of do_ocr on every image size and threshold of the model.
InitResize ==
    /\ InitService
    /\ ~cfg.auto_load_ocr /\ ~cfg.auto_load_translator /\ cfg.preload_ocr = << >>
    /\ InitConfig /\ config_file = NoFile
    /\ InitLogs
    /\ ocr_env = NoEnv /\ ocr_chain = NoChain
    /\ IdleTrLoad
    /\ IdleMore
    /\ \E w \in Sides, h \in Sides, lo \in MinSides, hi \in MaxSides :
         image = [NoImage EXCEPT !.stage = "decoded", !.min_side_for_upscale = lo,
                                 !.max_side = hi, !.w0 = w, !.h0 = h]

NextResize == DoOcrUpscale \/ DoOcrSizeCheck \/ DoOcrDownscale

SpecResize == InitResize /\ [][NextResize]_vars

\* load_translate_model in every environment, with
\* local_service.auto_download on and off.
InitTrLoad ==
    /\ InitService
    /\ ~cfg.auto_load_ocr /\ ~cfg.auto_load_translator /\ cfg.preload_ocr = << >>
    /\ InitConfig /\ config_file = NoFile
    /\ InitLogs
    /\ ocr_env = NoEnv /\ ocr_chain = NoChain
    /\ IdleImage
    /\ IdleMore
    /\ tr_env \in TrEnvs
    /\ tr_auto_download \in BOOLEAN
    /\ tr_load = NoLoad

NextTrLoad == LoadTranslateModelCall

SpecTrLoad == InitTrLoad /\ [][NextTrLoad]_vars

\* One load_ocr_engine call making its engine, in every environment, with
\* a reader that holds no lock.
InitStore ==
    /\ InitService
    /\ ~cfg.auto_load_ocr /\ ~cfg.auto_load_translator /\ cfg.preload_ocr = << >>
    /\ InitConfig /\ config_file = NoFile
    /\ InitLogs
    /\ ocr_env \in OcrEnvs
    /\ ocr_chain = NoChain
    /\ IdleImage
    /\ IdleTrLoad
    /\ ocr_store = [NoStore EXCEPT !.stage = "start"]
    /\ IdleKeys
    /\ IdleCtor

NextStore == StoreConstruct \/ StoreTag \/ StoreInsert \/ StoreRead

SpecStore == InitStore /\ [][NextStore]_vars

\* The cache keys of two requests with any model_type and lang.
InitKeys ==
    /\ InitService
    /\ ~cfg.auto_load_ocr /\ ~cfg.auto_load_translator /\ cfg.preload_ocr = << >>
    /\ InitConfig /\ config_file = NoFile
    /\ InitLogs
    /\ ocr_env = NoEnv /\ ocr_chain = NoChain
    /\ IdleImage
    /\ IdleTrLoad
    /\ ocr_store = NoStore
    /\ IdleCtor
    /\ \E a \in RequestModelTypes \X RequestLangs, b \in RequestModelTypes \X RequestLangs :
         ocr_keys = [NoKeys EXCEPT !.a = a, !.b = b]

NextKeys == PreloadOcrKeys

SpecKeys == InitKeys /\ [][NextKeys]_vars

\* The three locks together: lifespan, the preload thread with both
\* models, and request threads that serve the OCR and the translation
\* endpoints alike, with the executor.
InitLocks ==
    /\ Init
    /\ config_file = NoFile
    /\ Len(cfg.preload_ocr) <= 1

NextLocks ==
    \/ Lifespan
    \/ BackgroundPreload
    \/ \E p \in {BG} \cup TrThreads : LoadOcrEngine(p) \/ EnsureTranslateModel(p)
    \/ \E t \in TrThreads : OcrRequest(t) \/ TranslateRequest(t)
    \/ Executor

SpecLocks == InitLocks /\ [][NextLocks]_vars

\* One call of _safe_create_ocr with any subset of the keyword arguments
\* and a constructor that may do anything at each call.
InitCtor ==
    /\ InitService
    /\ ~cfg.auto_load_ocr /\ ~cfg.auto_load_translator /\ cfg.preload_ocr = << >>
    /\ InitConfig /\ config_file = NoFile
    /\ InitLogs
    /\ ocr_env = NoEnv /\ ocr_chain = NoChain
    /\ IdleImage
    /\ IdleTrLoad
    /\ ocr_store = NoStore
    /\ IdleKeys
    /\ \E kwargs \in SUBSET KwargNames :
         ocr_ctor = [NoCtor EXCEPT !.stage = "loop", !.kwargs = kwargs, !.pending = kwargs]

NextCtor == SafeCreateOcr

SpecCtor == InitCtor /\ [][NextCtor]_vars

\* The whole service: every thread serves every endpoint.
Next ==
    \/ Lifespan
    \/ BackgroundPreload
    \/ \E p \in Procs : LoadOcrEngine(p) \/ EnsureTranslateModel(p)
    \/ \E t \in Threads : OcrRequest(t) \/ TranslateRequest(t)
    \/ Executor
    \/ NextConfig
    \/ NextLogs
    \/ NextBackends
    \/ NextResize
    \/ NextTrLoad
    \/ NextStore
    \/ NextKeys
    \/ NextCtor

Spec == Init /\ [][Next]_vars


\* ------------------------------------------------------------ properties
\* A load_ocr_engine call has handed its caller an engine.
HoldsEngine(p) ==
    /\ pc[p] \in {"done", "bg_ocr_ready", "bg_extra_next"}
    /\ ret[p].kind = "engine"

\* C1: however many callers ask for a key at the same time, an engine is
\* constructed for it at most once, exactly once when a caller has been
\* handed an engine, and every caller that is handed an engine is handed
\* the one cached under its key.
C1_OneConstructionPerKey ==
    /\ \A k \in Keys : ctor_count[k] <= 1
    /\ \A p \in Procs :
         HoldsEngine(p) =>
           /\ ctor_count[key[p]] = 1
           /\ key[p] \in DOMAIN ocr_engines
           /\ ret[p].engine = ocr_engines[key[p]].id

\* Two callers whose calls overlap asked for the same key, and both hold
\* the single engine built for it.
C1_Witness ==
    \E p \in Procs, q \in Procs :
      /\ p # q
      /\ HoldsEngine(p)
      /\ HoldsEngine(q)
      /\ key[p] = key[q]
      /\ ctor_count[key[p]] = 1
      /\ ret[p].engine = ret[q].engine

\* Inferences that are inside the model: executor tasks between taking and
\* leaving the lock, and stream generators between create_completion and
\* their end.
ActiveInferences ==
    Cardinality({i \in TaskIds : task[i] = "infer"})
    + Cardinality({t \in Threads : pc[t] \in {"gen_run", "gen_yield", "gen_yield_done"}})

\* C2: at most one translation inference (blocking or streaming) is inside
\* the model at any time, including inferences whose request has timed out.
C2_OneActiveInference == ActiveInferences <= 1

\* An inference whose request timed out is still running while a stream
\* request waits to start its own.
C2_Witness ==
    /\ \E i \in TaskIds :
         /\ task[i] = "infer"
         /\ \A t \in Threads : fut[t] # i
    /\ \E t \in Threads : pc[t] = "gen_new"

\* The positions inside ensure_translate_model.
EnsurePcs == {"tr_fast", "tr_lock", "tr_load", "tr_set_repo", "tr_set_file"}

\* C3: once a call of ensure_translate_model has returned True, no call
\* runs load_translate_model again and every call that returns afterwards
\* returns True.
C3_EnsureIdempotent ==
    [][ensured =>
         \A p \in Procs :
           /\ pc'[p] = "tr_load" => pc[p] = "tr_load"
           /\ (pc[p] \in EnsurePcs /\ pc'[p] \notin EnsurePcs) => ret'[p].kind = "true"]_vars

\* The preload thread has loaded the model, and a request that called
\* ensure_translate_model afterwards was answered True.
C3_Witness ==
    /\ ensured
    /\ pc[BG] = "bg_done"
    /\ translate_ready
    /\ \E t \in Threads : pc[t] \in {"tr_submit", "gen_new"} /\ ret[t].kind = "true"

\* C4: the OCR engine cache only grows: a key that is in the cache stays in
\* it, bound to the same engine.
C4_CacheMonotonic ==
    [][\A k \in DOMAIN ocr_engines :
         /\ k \in DOMAIN ocr_engines'
         /\ ocr_engines'[k] = ocr_engines[k]]_vars

\* Both keys are cached, each with the first engine built for it.
C4_Witness ==
    /\ DOMAIN ocr_engines = Keys
    /\ \A k \in Keys : ocr_engines[k].id = 1 /\ ocr_engines[k].key = k

\* C5: once translate_model holds a model it is never replaced or cleared.
C5_ModelNeverReplaced ==
    [][translate_model # 0 => translate_model' = translate_model]_vars

\* The slot is filled and a call that had passed the first look at the
\* empty slot is about to take the load lock.
C5_Witness ==
    /\ translate_model # 0
    /\ \E p \in Procs : pc[p] = "tr_lock"

\* C6: at most one thread is inside load_translate_model at any time, and
\* at most one model is ever constructed.
C6_OneLoader ==
    /\ Cardinality({p \in Procs : pc[p] = "tr_load"}) <= 1
    /\ n_models <= 1

\* One caller is inside load_translate_model while another waits for the
\* load lock.
C6_Witness ==
    \E p \in Procs, q \in Procs :
      /\ p # q
      /\ pc[p] = "tr_load"
      /\ pc[q] = "tr_lock"

\* C7: when the client disconnects from a stream, the generator has ended
\* (it pulls no further chunk), the completion iterator is closed, the
\* inference lock is not held by the generator, and the response ends as
\* cancelled, not as an error.
C7_DisconnectCleansUp ==
    \A t \in Threads :
      gen[t].out = "cancelled" =>
        /\ pc[t] = "done"
        /\ gen[t].stream = "closed"
        /\ gen[t].pulled = << >>
        /\ translate_lock # <<"gen", t>>
        /\ resp[t] = 200

\* A client disconnected after its first token and before [DONE].
C7_Witness ==
    \E t \in Threads :
      /\ gen[t].out = "cancelled"
      /\ Len(gen[t].sent) >= 1
      /\ \A i \in 1..Len(gen[t].sent) : gen[t].sent[i] # DONE

\* C8: the events of a stream are the texts of the chunks that carry text,
\* in the order the model produced them; [DONE] is sent once, after the
\* last of them, and nothing is sent after it.
C8_StreamEvents ==
    \A t \in Threads :
      /\ pc[t] \in {"gen_run", "gen_yield"} => gen[t].sent = TokenEvents(gen[t].pulled)
      /\ pc[t] = "gen_yield_done" =>
           gen[t].sent = TokenEvents(gen[t].pulled) \o <<DONE>>
      /\ \A i \in 1..Len(gen[t].sent) :
           gen[t].sent[i] = DONE =>
             /\ i = Len(gen[t].sent)
             /\ pc[t] \in {"gen_yield_done", "done"}
      /\ gen[t].out = "completed" => pc[t] = "done" /\ gen[t].sent = << >>

\* A stream of two chunks with text has sent both and then [DONE].
C8_Witness ==
    \E t \in Threads :
      /\ pc[t] = "gen_yield_done"
      /\ gen[t].sent = <<TokenText[1], TokenText[2], DONE>>

\* The preload thread has not yet come back from loading the default engine.
BgDefaultPending ==
    \/ pc[BG] = "bg_begin"
    \/ ctx[BG] = "bg_default" /\ pc[BG] \in {"ocr_fast", "ocr_lock", "ocr_build"}

\* C9: with auto_load_ocr, from the moment requests are accepted until the
\* preload thread's load of the default engine has come back,
\* /loading_status reports ocr.loading = true and ocr.ready = false.
C9_LoadingUntilLoaded ==
    (accepting /\ cfg.auto_load_ocr /\ BgDefaultPending) =>
      (loading_status.ocr.loading /\ ~loading_status.ocr.ready)

\* The preload thread is past the default engine's try/except/finally.
BgPastDefault ==
    /\ cfg.auto_load_ocr
    /\ \/ pc[BG] \in {"bg_extra", "bg_extra_next", "bg_tr_begin", "bg_tr_ready",
                      "bg_tr_failed", "bg_tr_finally", "bg_done"}
       \/ ctx[BG] \in {"bg_extra", "bg_tr"}

\* What /loading_status says of a loaded OCR side.
OcrReported == ~loading_status.ocr.loading /\ loading_status.ocr.ready

\* C10: with auto_load_ocr, when the preload thread leaves the load of the
\* default engine after a success, /loading_status reports
\* ocr.loading = false and ocr.ready = true, and goes on reporting it.
C10_ReadyAfterLoad ==
    [][/\ (/\ pc[BG] = "bg_ocr_finally"
           /\ ret[BG].kind = "engine"
           /\ pc'[BG] # "bg_ocr_finally") => OcrReported'
       /\ (BgPastDefault /\ OcrReported) => OcrReported']_vars

\* The preload thread has ended after a successful default load, and the
\* cache holds the default engine.
C10_Witness ==
    /\ cfg.auto_load_ocr
    /\ pc[BG] = "bg_done"
    /\ ocr_ready
    /\ DefaultKey \in DOMAIN ocr_engines
    /\ OcrReported

\* The preload thread is past the default engine's load, which failed:
\* ocr_ready is set on its success and nowhere else.
BgDefaultFailed == BgPastDefault /\ ~ocr_ready

\* C11: with auto_load_ocr, once the preload thread's load of the default
\* engine has failed, /loading_status reports ocr.loading = false,
\* ocr.ready = false and an error.
C11_FailureReported ==
    BgDefaultFailed =>
      /\ ~loading_status.ocr.loading
      /\ ~loading_status.ocr.ready
      /\ loading_status.error # "none"

\* The preload thread has been started and has not finished its steps.
BgRunning == pc[BG] \notin {"unborn", "bg_none", "bg_done"}

\* The positions inside load_ocr_engine.
OcrLoadPcs == {"ocr_fast", "ocr_lock", "ocr_build"}

\* C12: while the preload thread runs, no /ocr request is inside
\* load_ocr_engine and no /translate or /translate_stream request is inside
\* ensure_translate_model (they were answered 503 instead).
C12_NoRequestLoadsDuringPreload ==
    BgRunning =>
      \A t \in Threads :
        /\ ~(ctx[t] = "ocr" /\ pc[t] \in OcrLoadPcs)
        /\ pc[t] \notin EnsurePcs

\* C13: whenever some thread is constructing an OCR engine, ocr_loading is
\* true, and whenever some thread is constructing the translation model,
\* translate_loading is true.
C13_FlagCoversConstruction ==
    /\ (\E p \in Procs : pc[p] = "ocr_build") => ocr_loading
    /\ (\E p \in Procs : pc[p] = "tr_load") => translate_loading

\* C14: when a load attempt succeeds after an earlier one failed, no error
\* is reported any more. The attempt looked at is the preload thread's load
\* of a preload_ocr entry, which comes after the default engine's.
C14_ErrorClearedBySuccess ==
    (pc[BG] = "bg_extra_next" /\ ret[BG].kind = "engine") =>
      loading_status.error = "none"


\* C15: POST /config with a partial nested object P followed by GET /config
\* answers a configuration in which every key given in P has P's value and
\* every key P does not mention, at any nesting depth, has the value it had
\* before the POST.
C15_ConfigRoundTrip ==
    LET RECURSIVE Reflects(_, _, _)
        Reflects(before, body, got) ==
            IF IsDict(before) /\ IsDict(body)
            THEN /\ IsDict(got)
                 /\ DOMAIN got.d = DOMAIN before.d \cup DOMAIN body.d
                 /\ \A k \in DOMAIN before.d \ DOMAIN body.d : got.d[k] = before.d[k]
                 /\ \A k \in DOMAIN body.d \ DOMAIN before.d : got.d[k] = body.d[k]
                 /\ \A k \in DOMAIN body.d \cap DOMAIN before.d :
                      Reflects(before.d[k], body.d[k], got.d[k])
            ELSE got = body
    IN  (config_posted # NoConfig /\ config_got # NoConfig) =>
          Reflects(config_before, config_posted, config_got)

\* C16: POST /ocr with a payload that is not valid base64 is answered 400
\* in every state of the service, and the request never enters
\* load_ocr_engine.
C16_InvalidBase64Is400 ==
    \A t \in Threads :
      (ctx[t] = "ocr" /\ req[t] = "invalid") => (pc[t] = "done" /\ resp[t] = 400)

\* C17: POST /translate and POST /translate_stream with empty or
\* whitespace-only text are answered 400 in every state of the service,
\* while translate_loading is true too; the request never enters
\* ensure_translate_model, submits no task to the worker pool, starts no
\* stream and does not hold the inference lock.
C17_EmptyTextIs400 ==
    \A t \in Threads :
      (ctx[t] \in {"translate", "stream"} /\ req[t] = "invalid") =>
        /\ pc[t] = "done"
        /\ resp[t] = 400
        /\ fut[t] = 0
        /\ gen[t] = NoGen
        /\ translate_lock # <<"gen", t>>

C17_Witness ==
    /\ translate_loading
    /\ \E t \in Threads :
         ctx[t] \in {"translate", "stream"} /\ req[t] = "invalid" /\ resp[t] = 400

\* A submitted task whose request no longer waits for it.
Abandoned(i) ==
    /\ task[i] \in {"queued", "wantlock", "infer"}
    /\ \A t \in Threads : ~(pc[t] = "tr_wait" /\ fut[t] = i)

\* C18: when the wait of a POST /translate request ends before its future
\* has completed, the request is answered 504 and the task is neither
\* cancelled nor stopped: the step leaves the task, the queue and the
\* inference lock as they are; from then on the task only moves forward
\* (queued, taken by a worker, running, finished), it holds the inference
\* lock for as long as it runs, and the lock is free when it finishes.
C18_TimeoutLeavesTask ==
    [][ /\ \A t \in Threads :
             (/\ pc[t] = "tr_wait"
              /\ pc'[t] # "tr_wait"
              /\ task[fut[t]] \notin {"result", "exception"}) =>
               /\ resp'[t] = 504
               /\ UNCHANGED <<task, queue, translate_lock>>
        /\ \A i \in TaskIds :
             Abandoned(i) =>
               /\ task[i] = "queued" => task'[i] \in {"queued", "wantlock"}
               /\ task[i] = "wantlock" => task'[i] \in {"wantlock", "infer"}
               /\ task[i] = "infer" =>
                    /\ translate_lock = <<"task", i>>
                    /\ task'[i] \in {"infer", "free"}
                    /\ task'[i] = "infer" => translate_lock' = <<"task", i>>
                    /\ task'[i] = "free" => translate_lock' = Free
      ]_vars

C18_Witness ==
    \E i \in TaskIds, t \in Threads :
      /\ Abandoned(i)
      /\ task[i] = "infer"
      /\ translate_lock = <<"task", i>>
      /\ ctx[t] = "translate" /\ resp[t] = 504

\* C19: the log buffer never holds more than max_size entries: after
\* max_size + k entries have been added to an empty buffer it holds exactly
\* max_size entries, and get_all(0) answers exactly the newest max_size of
\* them, in the order they were added; the oldest k cannot be reached.
C19_RingKeepsNewest ==
    /\ Len(log_buffer) <= LogMaxSize
    /\ Len(log_added) >= LogMaxSize => Len(log_buffer) = LogMaxSize
    /\ GetAll(0) = LastOf(log_added, LogMaxSize)

C19_Witness ==
    /\ Len(log_added) > LogMaxSize
    /\ Len(GetAll(0)) = LogMaxSize

\* C20: log entry ids are monotonic over any sequence of add, get_all and
\* clear (POST /logs/clear included): every newly added entry gets an id
\* greater than the id of every entry added before it, and the entries in
\* the buffer are in strictly increasing id order.
C20_IdsMonotonic ==
    /\ last_given # 0 => last_given > max_given
    /\ \A i \in 1 .. Len(log_buffer) - 1 : log_buffer[i].id < log_buffer[i + 1].id

\* The steps background_preload is configured to take, in order: the
\* thread's start, the default OCR load and the entries of preload_ocr when auto_load_ocr is
\* set, the translation load when auto_load_translator is set.
ConfiguredSteps ==
    (IF cfg.auto_load_ocr \/ cfg.auto_load_translator THEN <<ThreadStart>> ELSE << >>) \o
    (IF cfg.auto_load_ocr
     THEN <<DefaultKey>> \o
          [i \in 1 .. Len(cfg.preload_ocr) |->
             CacheKey(cfg.preload_ocr[i].type, cfg.preload_ocr[i].lang)]
     ELSE << >>) \o
    (IF cfg.auto_load_translator THEN <<TranslateStep>> ELSE << >>)

\* C21: the preload thread takes its steps strictly in sequence, the
\* default OCR load, then each preload_ocr entry in list order, then the
\* translation load: what it has started so far is always an initial part
\* of that sequence, and when it ends it has started every step, whether
\* or not the default load or any entry failed.
C21_PreloadInSequence ==
    /\ Len(bg_trace) <= Len(ConfiguredSteps)
    /\ bg_trace = SubSeq(ConfiguredSteps, 1, Len(bg_trace))
    /\ pc[BG] = "bg_done" => bg_trace = ConfiguredSteps

C21_Witness ==
    /\ pc[BG] = "bg_done"
    /\ cfg.auto_load_ocr /\ cfg.auto_load_translator
    /\ Len(cfg.preload_ocr) > 1
    /\ bg_trace = ConfiguredSteps
    /\ ocr_engines = << >>
    /\ loading_error = "ocr_load_failed"
    /\ translate_model # 0

\* C22: startup never waits for model loading: once lifespan has decided
\* about the preload thread it can reach its yield, wherever the preload
\* thread is and even if it never ends; at most one preload thread is
\* started, and none when neither auto_load_ocr nor auto_load_translator
\* is set.
C22_StartupDoesNotWait ==
    /\ (~accepting /\ pc[BG] # "unborn") => ENABLED LifespanYield
    /\ \A i, j \in DOMAIN bg_trace :
         (bg_trace[i] = ThreadStart /\ bg_trace[j] = ThreadStart) => i = j
    /\ (~cfg.auto_load_ocr /\ ~cfg.auto_load_translator) =>
         (bg_trace = << >> /\ pc[BG] \in {"unborn", "bg_none"})

\* the service accepts requests while the preload thread is constructing
\* the default engine
C22_Witness ==
    /\ accepting
    /\ pc[BG] = "ocr_build"
    /\ bg_trace = <<ThreadStart, DefaultKey>>

\* C23: when load_translate_model resolves no model file,
\* ensure_translate_model returns False without raising, with
\* translate_model, translate_repo and translate_file all still null and
\* the load lock released; the failure is recorded nowhere, so a later call
\* that finds the slot empty under the lock runs the resolution again.
C23_FailedEnsureLeavesSlotEmpty ==
    [][ \A p \in Procs :
          /\ (pc[p] = "tr_load" /\ pc'[p] # "tr_load" /\ ret'[p].kind = "false") =>
               /\ translate_model' = 0
               /\ translate_repo' = "none"
               /\ translate_file' = "none"
               /\ translate_load_lock' = Free
               /\ UNCHANGED <<n_models, flag_vars>>
          /\ (pc[p] = "tr_lock" /\ pc'[p] # "tr_lock" /\ translate_model = 0) =>
               pc'[p] = "tr_load"
      ]_vars

\* one call has returned False and another is resolving again
C23_Witness ==
    \E p, q \in Procs :
      /\ p # q
      /\ ret[p].kind = "false"
      /\ pc[q] = "tr_load"
      /\ translate_model = 0 /\ translate_repo = "none" /\ translate_file = "none"

\* C24: when the chain reaches the PaddleOCR fallback (neither RapidOCR
\* backend constructs, PaddleOCR is installed), the weights are missing and
\* paddleocr.auto_download is false, load_ocr_engine fails with the
\* model-missing error that names the model directory, has not called the
\* PaddleOCR constructor, and has stored nothing in the cache.
C24_ModelMissingStopsBeforeConstructor ==
    (/\ ocr_chain # NoChain
     /\ ocr_env.openvino # "ok" /\ ocr_env.onnx # "ok" /\ ocr_env.paddle # "absent"
     /\ ~ocr_env.has_models /\ ~ocr_env.auto_download) =>
        /\ ocr_chain.kind = "raise"
        /\ ocr_chain.err = "model_missing"
        /\ ocr_chain.dir = ModelDir
        /\ \A i \in DOMAIN ocr_chain.ctors : ocr_chain.ctors[i] # "paddle"
        /\ ~ocr_chain.cached
        /\ TryBackends(ocr_env).err = "model_missing"

\* the fallback was reached after a RapidOCR constructor raised, with a
\* PaddleOCR whose constructor would have worked
C24_Witness ==
    /\ ocr_chain # NoChain
    /\ ocr_env.openvino = "raises" /\ ocr_env.onnx = "absent" /\ ocr_env.paddle = "ok"
    /\ ~ocr_env.has_models /\ ~ocr_env.auto_download
    /\ ocr_chain.err = "model_missing"
    /\ ocr_chain.ctors = <<"openvino">>

C26_OneConstructionAtATime ==
    /\ \A p, q \in Procs : (pc[p] = "ocr_build" /\ pc[q] = "ocr_build") => p = q
    /\ \A p \in Procs : pc[p] = "ocr_build" => ocr_lock = <<"proc", p>>
    /\ \A p \in Procs :
         (pc[p] = "ocr_lock" /\ \E q \in Procs : pc[q] = "ocr_build") =>
            ~ENABLED LoadOcrEngineLock(p)

\* one thread constructs the engine of one key while another waits at the
\* lock with a different key
C26_Witness ==
    \E p, q \in Procs :
      /\ pc[p] = "ocr_build"
      /\ pc[q] = "ocr_lock"
      /\ key[p] # key[q]
      /\ key[q] \notin DOMAIN ocr_engines

\* C27: every step that changes the OCR cache, a field of the translation
\* slot, or a loading-status flag or loading_error is taken by a thread
\* that holds a lock at the moment of the write: the registry lock for the
\* cache, the load lock for the slot, and some lock of ServiceState for the
\* status flags.
C27_MutationsUnderLock ==
    [][ /\ (ocr_engines' # ocr_engines) =>
             \E p \in Procs : ocr_lock = <<"proc", p>> /\ pc[p] # pc'[p]
        /\ (<<translate_model, translate_repo, translate_file>>' #
              <<translate_model, translate_repo, translate_file>>) =>
             \E p \in Procs : translate_load_lock = <<"proc", p>> /\ pc[p] # pc'[p]
        /\ (flag_vars' # flag_vars) =>
             \E p \in Procs :
               /\ pc[p] # pc'[p]
               /\ \/ ocr_lock = <<"proc", p>>
                  \/ translate_load_lock = <<"proc", p>>
      ]_vars

\* C28: load_ocr_engine calls the constructors in the order
\* RapidOCR-OpenVINO, RapidOCR-ONNX, PaddleOCR; a backend that is absent is
\* passed without a call and one whose constructor raises is passed after
\* it; the engine cached is that of the first backend that constructs, and
\* the call raises only when neither RapidOCR backend constructs and
\* PaddleOCR is absent, lacks its weights or raises.
C28_BackendOrder ==
    LET Rank(b) == CASE b = "openvino" -> 1 [] b = "onnx" -> 2 [] OTHER -> 3
        State(b) == CASE b = "openvino" -> ocr_env.openvino
                      [] b = "onnx" -> ocr_env.onnx
                      [] OTHER -> ocr_env.paddle
        c == ocr_chain.ctors
        Called(b) == \E i \in DOMAIN c : c[i] = b
    IN  ocr_chain # NoChain =>
          /\ \A i, j \in DOMAIN c : i < j => Rank(c[i]) < Rank(c[j])
          /\ \A i \in DOMAIN c : State(c[i]) # "absent"
          /\ \A i \in DOMAIN c : i < Len(c) => State(c[i]) = "raises"
          /\ ocr_chain.kind = "engine" =>
               /\ c # << >> /\ c[Len(c)] = ocr_chain.via
               /\ State(ocr_chain.via) = "ok"
               /\ ocr_chain.cached
               /\ ocr_chain.backend = IF ocr_chain.via = "paddle" THEN "paddleocr"
                                      ELSE "rapidocr"
               /\ \A b \in {"openvino", "onnx"} :
                    Rank(b) < Rank(ocr_chain.via) => State(b) # "ok"
          /\ ocr_chain.kind = "raise" =>
               /\ ocr_env.openvino # "ok" /\ ocr_env.onnx # "ok"
               /\ \A b \in {"openvino", "onnx"} : State(b) = "raises" => Called(b)
               /\ \/ ocr_env.paddle = "absent"
                  \/ ~ocr_env.has_models /\ ~ocr_env.auto_download
                  \/ ocr_env.paddle = "raises" /\ Called("paddle")
               /\ ~ocr_chain.cached
          /\ (ocr_env.openvino = "ok" \/ ocr_env.onnx = "ok") => ocr_chain.kind = "engine"
          /\ TryBackends(ocr_env) = [kind |-> ocr_chain.kind, backend |-> ocr_chain.backend,
                                     err |-> ocr_chain.err]

\* the first constructor raised and the second one made the engine, with a
\* PaddleOCR that was never tried
C28_Witness ==
    /\ ocr_env.openvino = "raises" /\ ocr_env.onnx = "ok" /\ ocr_env.paddle = "ok"
    /\ ocr_chain.kind = "engine"
    /\ ocr_chain.via = "onnx"
    /\ ocr_chain.ctors = <<"openvino", "onnx">>
    /\ ocr_chain.cached

\* C29: load_translate_model downloads from the hub only when the file
\* resolves neither as given nor under the model directory and
\* local_service.auto_download of the configuration permits it.
C29_DownloadOnlyIfPermitted ==
    tr_load.downloaded =>
        /\ tr_auto_download
        /\ ~tr_env.is_file
        /\ ~tr_env.in_dir

\* C30: a load_ocr_engine call that raises leaves the OCR cache and the
\* count of constructed engines as they were and the registry lock free,
\* and records the failure nowhere: every call that finds its key missing
\* under the lock goes into construction, whether a call for that key has
\* failed before or not.
C30_FailedLoadLeavesNoTrace ==
    [][ \A p \in Procs :
          /\ (pc[p] = "ocr_build" /\ pc'[p] # "ocr_build" /\ ret'[p].kind = "raise") =>
               /\ ocr_engines' = ocr_engines
               /\ ctor_count' = ctor_count
               /\ ocr_lock' = Free
               /\ UNCHANGED flag_vars
          /\ (pc[p] = "ocr_lock" /\ pc'[p] # "ocr_lock" /\ key[p] \notin DOMAIN ocr_engines) =>
               pc'[p] = "ocr_build"
      ]_vars

\* one call has failed for a key, a later call constructs for the same key
\* and a call for the other key waits only for that construction
C30_Witness ==
    \E p, q, r \in Procs :
      /\ pc[p] = "done" /\ ret[p].kind = "raise"
      /\ pc[q] = "ocr_build" /\ key[q] = key[p]
      /\ pc[r] = "ocr_lock" /\ key[r] # key[p]
      /\ key[p] \notin DOMAIN ocr_engines

\* C31: every engine in the OCR cache carries a backend tag, rapidocr or
\* paddleocr: the tag is written before the engine is stored, so a reader
\* that takes no lock gets either no engine or an engine with its tag, and
\* the tag is that of the backend that made the engine.
C31_CachedEngineIsTagged ==
    /\ ocr_store.cached => ocr_store.tag \in Backends
    /\ ocr_store.seen # "untagged"
    /\ ocr_store.tag # "none" =>
         ocr_store.tag = (IF ocr_store.via = "paddle" THEN "paddleocr" ELSE "rapidocr")
    /\ ocr_store.stage = "raised" => ~ocr_store.cached

\* a reader found the stored engine of the PaddleOCR fallback with its tag
C31_Witness ==
    /\ ocr_store.stage = "stored"
    /\ ocr_store.cached
    /\ ocr_store.via = "paddle"
    /\ ocr_store.seen = "paddleocr"

\* C32: a consumer that polls get_all with the id of the last entry it
\* received gets, at every poll, exactly the entries appended since its
\* poll before, when fewer than max_size were appended, whatever else ran
\* in between, POST /logs/clear included.
C32_PollsMissNothing == ~consumer.missed

\* C33: under fair scheduling every translation request that has reached
\* inference gets the inference lock and ends, and every holder of the
\* lock lets it go: a task waiting for the lock comes to run and then to
\* its end, a generator waiting for the lock comes to its end, and a lock
\* held by a task or a generator is taken from that holder again.
C33_InferenceLockIsReleased ==
    /\ \A i \in TaskIds : (task[i] = "wantlock") ~> (task[i] = "infer")
    /\ \A i \in TaskIds : (task[i] = "infer") ~> (task[i] # "infer" /\ translate_lock # <<"task", i>>)
    /\ \A t \in TrThreads : (pc[t] = "gen_new") ~> (pc[t] = "done")
    /\ \A t \in TrThreads : (translate_lock = <<"gen", t>>) ~> (translate_lock # <<"gen", t>>)

\* a request waits for the lock while a task whose request has timed out
\* holds it
C33_Witness ==
    \E t \in TrThreads, i \in TaskIds :
      /\ pc[t] = "gen_new"
      /\ translate_lock = <<"task", i>>
      /\ \A u \in Threads : fut[u] # i

\* C34 as stated: two requests with different (model_type, lang) pairs, any
\* strings, never get the same cache key.
C34_KeyInjective ==
    (ocr_keys.key_a # "none" /\ ocr_keys.key_a = ocr_keys.key_b) => ocr_keys.a = ocr_keys.b

\* C34, amended: two requests whose model_type is one of the variants of
\* the service, mobile or server, and whose lang is any string, get the
\* same cache key only when model_type and lang are both the same.
C34_KeyInjectiveOnVariants ==
    (/\ ocr_keys.key_a # "none"
     /\ ocr_keys.a[1] \in ModelTypes /\ ocr_keys.b[1] \in ModelTypes
     /\ ocr_keys.key_a = ocr_keys.key_b) => ocr_keys.a = ocr_keys.b

\* two requests for the same variant whose languages differ and hold the
\* separator of the key
C34_Witness ==
    /\ ocr_keys.a = <<"mobile", "en_x">>
    /\ ocr_keys.b = <<"mobile", "x">>
    /\ ocr_keys.key_a = "mobile_en_x"
    /\ ocr_keys.key_b = "mobile_x"

\* C35: in every state translate_model is non-null exactly when
\* translate_repo and translate_file are set, which is what GET /health
\* reads without a lock.
C35_SlotObservedAtomically ==
    (translate_model # 0) <=> (translate_repo # "none" /\ translate_file # "none")

\* C36: after any sequence of POST /config requests DEFAULT_CONFIG, which
\* GET /config/default returns and which a configuration loaded without a
\* file is, has the value it had when the process started.
C36_DefaultsNeverChange ==
    n_posts > 0 => default_config = DefaultConfig

\* C37: the image do_ocr turns into the array for the engine has both
\* sides at least MIN_OCR_SIZE and its larger side at most max_side.
C37_EngineImageWithinLimits ==
    image.stage = "array" =>
        /\ image.w2 >= MIN_OCR_SIZE
        /\ image.h2 >= MIN_OCR_SIZE
        /\ Max2(image.w2, image.h2) <= image.max_side

\* the locks thread p holds: _ocr_lock and _translate_load_lock are taken
\* by the thread that loads, _translate_lock by the thread that iterates
\* the generator of p's stream
HeldLocks(p) ==
    (IF ocr_lock = <<"proc", p>> THEN {"_ocr_lock"} ELSE {})
    \cup (IF translate_load_lock = <<"proc", p>> THEN {"_translate_load_lock"} ELSE {})
    \cup (IF translate_lock = <<"gen", p>> THEN {"_translate_lock"} ELSE {})

\* thread p stands at the with statement of a lock
WaitsForLock(p) == pc[p] \in {"ocr_lock", "tr_lock", "gen_new"}

\* C38: no thread holds two of _ocr_lock, _translate_load_lock and
\* _translate_lock; a thread that stands at the with statement of a lock
\* holds none, so no lock is taken by its own holder; an executor thread
\* that waits for _translate_lock does not hold it; and the holder of every
\* held lock can take its next step without any lock, so no set of threads
\* wait for each other.
C38_NoLockNesting ==
    /\ \A p \in Procs : Cardinality(HeldLocks(p)) <= 1
    /\ \A p \in Procs : WaitsForLock(p) => HeldLocks(p) = {}
    /\ \A i \in TaskIds : task[i] = "wantlock" => translate_lock # <<"task", i>>
    /\ ocr_lock # Free =>
         \E p \in Procs : ocr_lock = <<"proc", p>> /\ ENABLED LoadOcrEngineBuild(p)
    /\ translate_load_lock # Free =>
         \E p \in Procs : /\ translate_load_lock = <<"proc", p>>
                          /\ ENABLED (EnsureLoad(p) \/ EnsureSetRepo(p) \/ EnsureSetFile(p))
    /\ translate_lock # Free =>
         \/ \E i \in TaskIds : translate_lock = <<"task", i>> /\ ENABLED DoInferenceLeave(i)
         \/ \E t \in Threads :
              /\ translate_lock = <<"gen", t>>
              /\ ENABLED (GenNextChunk(t) \/ GenExhausted(t) \/ GenRaise(t) \/ GenResume(t)
                          \/ GenFinish(t) \/ GenDisconnect(t))

\* the preload thread constructs an OCR engine under _ocr_lock while an
\* executor thread runs an inference under _translate_lock, and later the
\* request thread takes _ocr_lock while the preload thread loads the
\* translation model under _translate_load_lock
C38_Witness ==
    \/ /\ ocr_lock = <<"proc", BG>>
       /\ \E i \in TaskIds : translate_lock = <<"task", i>>
       /\ translate_model # 0
    \/ /\ translate_load_lock = <<"proc", BG>>
       /\ \E t \in TrThreads : ocr_lock = <<"proc", t>> /\ ocr_ready

\* C39: ocr_ready is true only while the default OCR key is in the cache,
\* translate_ready only while the translation model is loaded, and neither
\* flag goes from true back to false.
C39_ReadyFlagsNeverOverstate ==
    /\ [](ocr_ready => DefaultKey \in DOMAIN ocr_engines)
    /\ [](translate_ready => translate_model # 0)
    /\ [][(ocr_ready => ocr_ready') /\ (translate_ready => translate_ready')]_vars

\* the preload thread has ended with both flags set
C39_Witness ==
    /\ pc[BG] = "bg_done"
    /\ ocr_ready /\ translate_ready
    /\ DefaultKey \in DOMAIN ocr_engines
    /\ translate_model # 0

\* C40: _safe_create_ocr calls the constructor at most once more than it
\* got keyword arguments; every retry has removed the argument the error
\* named from the pending ones; and when it ends without an engine it has
\* raised the constructor's error.
C40_SafeCreateTerminates ==
    /\ ocr_ctor.calls <= Cardinality(ocr_ctor.kwargs) + 1
    /\ ocr_ctor.pending \subseteq ocr_ctor.kwargs
    /\ ocr_ctor.stage = "loop" =>
         /\ ocr_ctor.calls + Cardinality(ocr_ctor.pending) = Cardinality(ocr_ctor.kwargs)
         /\ ocr_ctor.calls > 0 =>
              WordsAfterMarker(ocr_ctor.last)[1] \in ocr_ctor.kwargs \ ocr_ctor.pending
    /\ ocr_ctor.stage = "raised" => ocr_ctor.error = "constructor"

====
